---- MODULE Spec2Model ----
(***************************************************************************)
(* Model of the Prosilica areaDetector driver (prosilicaApp/src/           *)
(* prosilica.cpp): one camera instance, the asyn command thread, the       *)
(* vendor link-event thread and the vendor frame-callback thread, the      *)
(* vendor (PvAPI) handle and capture queue, and the NDArray buffer pool.   *)
(***************************************************************************)
EXTENDS Integers, Sequences, FiniteSets, TLC

\* ------------------------------------------------------------------ sizes
\* #define MAX_PVAPI_FRAMES 2: the default number of transfer descriptors
MAX_PVAPI_FRAMES == 2
\* #define CONNECT_RETRY_COUNT 30
CONNECT_RETRY_COUNT == 30
\* handles the vendor library can have open at once
MaxHandles == 2
\* NDArrays the buffer pool can hold
MaxBuffers == 4
\* devices on the network
NumDevices == 2
\* frame completions the vendor library delivers in one run
MaxFrames == 2
\* the value of ADNumImages
NumImages == 2

Frames    == 1..MAX_PVAPI_FRAMES
Handles   == 1..MaxHandles
Buffers   == 1..MaxBuffers
DeviceIds == 1..NumDevices
Threads   == {"cmd", "link"}
NULL      == 0

\* The device that cameraId (a unique id, or a name or address) stands for.
cameraDev == CHOOSE d \in DeviceIds : \A e \in DeviceIds : d <= e

\* What the device can report for SensorType/SensorBits/SensorWidth/SensorHeight
Sensors == { [type |-> "Mono",  bits |-> 8,  width |-> 4, height |-> 2],
             [type |-> "Bayer", bits |-> 12, width |-> 4, height |-> 4] }
NoSensor == [type |-> "", bits |-> 0, width |-> 0, height |-> 0]

VARIABLES
    PvApiInitialized, \* static int PvApiInitialized
    PvHandle,         \* tPvHandle PvHandle (NULL when disconnected)
    uniqueId,         \* unsigned long uniqueId
    uniqueIP,         \* unsigned long uniqueIP
    isUniqueId,       \* whether cameraId is all digits (fixed at construction)
    permitted,        \* PvCameraInfo.PermittedAccess & ePvAccessMaster
    sensor,           \* sensorType, sensorBits, sensorWidth, sensorHeight
    maxFrameSize,     \* int maxFrameSize
    ctx,              \* PvFrames[i].Context[1]: the bound NDArray, or NULL
    pArrays0,         \* pArrays[0]: the last good image, or NULL
    refcnt,           \* NDArrayPool: reference count of every NDArray
    bufSize,          \* NDArrayPool: dataSize of every NDArray
    openHandles,      \* vendor: the handles that are open
    captureOn,        \* vendor: the handles whose capture stream is started
    queued,           \* vendor: the handle each descriptor is queued on, or NULL
    cancelling,       \* vendor: descriptors whose cancelled completion is to be delivered
    acqOn,            \* vendor: the handles that are acquiring (AcquisitionStart)
    fcb,              \* vendor: the frame completion whose callback is in progress
    frameBudget,      \* vendor: frame completions still to come
    framesRemaining,  \* int framesRemaining
    imageCounter,     \* parameter NDArrayCounter
    badFrameCounter,  \* parameter PSBadFrameCounter
    acquire,          \* parameter ADAcquire
    adStatus,         \* parameter ADStatus
    shutter,          \* the shutter, as setShutter() left it
    frameLoc,         \* the frame thread: program counter and locals of frameCallback
    crashed,          \* the process has dereferenced a NULL NDArray
    dueFrames,        \* history: decoded frames still due before the auto-stop of a
                      \* multiple-mode acquisition, or -1 when none is started
    lock,             \* asynPortDriver mutex: its owner, or "none"
    loc,              \* per thread: program counter and locals
    linkEv,           \* the link event the link thread is delivering
    geom,             \* the geometry parameters, the camera's region attributes and the
                      \* locals of the geometry command in progress
    scan,             \* cameraList and the locals of the cameraLinkCallback scanning it
    registry,         \* cameraList, the drivers constructed and the vendor library's
                      \* registrations, as constructors and destructors leave them
    params,           \* the camera's acquisition attributes, their parameters in the
                      \* parameter library and the write command in progress
    decode            \* one frame completion, the parameters its decode reads and the
                      \* NDArray the decode hands on

sessionVars == <<PvHandle, uniqueId, uniqueIP, permitted, sensor, maxFrameSize,
                 ctx, pArrays0, refcnt, bufSize>>
vendorVars  == <<openHandles, captureOn, queued, cancelling, acqOn>>
frameVars   == <<fcb, frameBudget, framesRemaining, imageCounter, badFrameCounter,
                 acquire, adStatus, shutter, frameLoc, crashed, dueFrames>>
\* The variables only the specifications of single operations use.
extraVars   == <<registry, params, decode>>
vars == <<PvApiInitialized, isUniqueId, sessionVars, vendorVars, frameVars,
          lock, loc, linkEv, geom, scan, extraVars>>

NoEvent == [kind |-> "none", id |-> 0]

\* No write command in progress, the attributes and parameters not looked at.
\*   pc       "idle", "read": before readParameters(), "fault": the process died
\*   dev      the camera's attributes
\*   mirror   the parameters of the parameter library
\*   function, value, status: of the command in progress
\*   issued   the command has called the vendor's attribute write
NoParams == [pc |-> "idle", dev |-> <<>>, mirror |-> <<>>, function |-> "none", value |-> 0,
             status |-> "asynSuccess", issued |-> FALSE]

\* No frame looked at.
NoImage == [pc |-> "none"]

\* No cameraLinkCallback in progress.
\*   pc     "idle", "node": at the head of the while loop, "fault": the callback
\*          has read a deleted node
\*   event  the link event
\*   pNode  the driver of the node pNode points to, 0 when pNode is null
\*   stale  the node pNode points to has been deleted
NoWalk == [pc |-> "idle", event |-> "none", pNode |-> 0, stale |-> FALSE]

\* The process before any driver is constructed.
\*   cameraList "null": static ELLLIST *cameraList as the loader left it, "list": it
\*              points to an ELLLIST, "freed": it points to a deleted ELLLIST
\*   nodes      the drivers of the list's nodes, in order
\*   alive      the drivers constructed and not destroyed
\*   connected  the drivers that hold a camera handle
\*   callbacks  the link events cameraLinkCallback is registered for
\*   corrupt    the heap was damaged through the deleted list
\*   walk       the cameraLinkCallback in progress on the vendor's thread
NoRegistry == [cameraList |-> "null", nodes |-> <<>>, alive |-> {}, connected |-> {},
               callbacks |-> {}, corrupt |-> FALSE, walk |-> NoWalk]

\* No construction or destruction is modelled: the one driver of the session stands
\* alone.
QuietExtras == registry = NoRegistry /\ params = NoParams /\ decode = NoImage

\* One node of cameraList: what cameraLinkCallback reads of the driver it points to,
\* and whether that driver holds a camera handle.
NoInstance == [uniqueId |-> 0, uniqueIP |-> 0, connected |-> FALSE]

\* cameraList and the locals of cameraLinkCallback.
\*   pc       "idle": no callback in progress, "node": at the head of the loop
\*   event    Event and UniqueId of the call
\*   addr     the current address of the event's device; ipOk whether
\*            PvCameraIpSettingsGet can report it
\*   node     pNode: the position in cameraList, or past its end
\*   found    int found
\*   uniqueIP unsigned long uniqueIP
\*   calls    the connectCamera/disconnectCamera calls made for the event, in order
NoScan == [pc |-> "idle", event |-> NoEvent, addr |-> 0, ipOk |-> FALSE, node |-> 1,
           found |-> 0, uniqueIP |-> 0, calls |-> <<>>, inst |-> <<>>]

\* A frame completion (tPvFrame): the descriptor, its Status and its Format.
NoFrame == [i |-> 0, status |-> "none", fmt |-> "none"]

\* The locals of the frame callback in progress.
\*   pc        "called": frameCallbackC entered, "queue": before PvCaptureQueueFrame,
\*             "unlock": before unlock(), "idle": no callback in progress
\*   branch    "good": the decode branch, "bad": the bad-frame branch
\*   given     the NDArray found in Context[1]
\*   prev      pArrays[0] when the callback was entered
\*   delivered the image handed to doCallbacksGenericPointer, or NULL
\*   freed     the NDArrays released, in order
\*   requeued  whether the vendor took the requeue
\*   autostop  whether the callback ran the "acquisition is done" block
IdleFrame == [pc |-> "idle", branch |-> "none", given |-> 0, prev |-> 0, delivered |-> 0,
              freed |-> <<>>, requeued |-> FALSE, autostop |-> FALSE]

\* The locals of one call of connectCamera/disconnectCamera on a thread.
\*   top    the entry point the thread came in by
\*   inner  disconnectCamera was called by connectCamera
\*   retry  connectCamera's retryCount;  i  its loop index over PvFrames
\*   polls, sleeps  PvCameraInfoEx calls and sleeps of the access loop (kept when
\*          the loop ends in an error return)
\*   vcalls vendor queue-clear/capture-end/close calls issued
\*   sent   the signals given to asynManager;  ret  the value returned
\*   failed the step that made the call return an error
\*   value, mode  writeInt32(ADAcquire): its value argument and the ADImageMode it read
\*   was    the sensor data and maxFrameSize connectCamera overwrote
\*   ignored  the vendor commands of connectCamera that failed with their status
\*          not looked at, until the signal is given
\*   vstatus  disconnectCamera's status after its vendor calls: ePvErrSuccess, or
\*          "error" when one of them reported an error
\*   sig    what exceptionDisconnect returned to disconnectCamera, "none" before
IdleLoc == [pc |-> "idle", top |-> "none", inner |-> FALSE, retry |-> 0, i |-> 1,
            polls |-> 0, sleeps |-> 0, vcalls |-> 0, sent |-> <<>>,
            ret |-> "none", failed |-> "none", value |-> 0, mode |-> "none",
            was |-> [sensor |-> NoSensor, maxFrameSize |-> 0], ignored |-> {},
            vstatus |-> "ePvErrSuccess", sig |-> "none"]

\* The two axes of the readout region.
Axes == {"X", "Y"}

\* geom before any geometry is known.
\*   pc       "idle", or "readback": setGeometry has run, readParameters is to come
\*   binning  whether the camera has the BinningX/BinningY attributes (a CCD)
\*   par      the parameter library: ADBin, ADMin, ADSize of each axis
\*   hw       the camera: Binning, Region, Width/Height of each axis
\*   req      the offset, size and binning setGeometry read from the parameter library
\*   applied  the value setGeometry gave PvAttrUint32Set for Width/Height, or NoValue
\*   clamped  the ADSize setGeometry left in the parameter library
\*   status   whether the last setGeometry (set) and getGeometry (get) returned
\*            asynSuccess
NoValue == [big |-> FALSE, v |-> -1]
NoGeom == [pc |-> "idle", binning |-> FALSE, status |-> [set |-> TRUE, get |-> TRUE],
           par |-> [a \in Axes |-> [bin |-> 0, min |-> 0, size |-> 0]],
           hw  |-> [a \in Axes |-> [bin |-> 0, region |-> 0, width |-> 0]],
           req |-> [a \in Axes |-> [bin |-> 0, min |-> 0, size |-> 0]],
           applied |-> [a \in Axes |-> NoValue],
           clamped |-> [a \in Axes |-> 0]]

\* ------------------------------------------------------------ NDArrayPool
FreeBuffers(rc) == {b \in Buffers : rc[b] = 0}

Min(S) == CHOOSE x \in S : \A y \in S : x <= y

\* pNDArrayPool->alloc(): an NDArray, or NULL when the pool gives none
PoolAlloc(rc, ok) == IF ok /\ FreeBuffers(rc) # {} THEN Min(FreeBuffers(rc)) ELSE NULL

\* A release that drops two references: C9 must tell it from NDArray::release().
ReleaseTwice(rc, b) == [rc EXCEPT ![b] = @ - 2]

\* NDArray::release()
Release(rc, b) == [rc EXCEPT ![b] = @ - 1]

\* A callback that keeps the reference of the image it replaces: C10 must tell it
\* from the code's.
ReleasePreviousNever(rc, prev) == rc

\* if (this->pArrays[0]) this->pArrays[0]->release();
ReleasePrevious(rc, prev) == IF prev # NULL THEN Release(rc, prev) ELSE rc

\* The dataSize of the NDArrays in use (that of a free NDArray is not kept).
SizesInUse(sz, rc) == [b \in Buffers |-> IF rc[b] > 0 THEN sz[b] ELSE 0]

\* ------------------------------------------------------------------ Init
\* The state the constructor leaves before its connection attempt.  uniqueId and
\* uniqueIP are not initialised by the constructor.
InitSession ==
    /\ PvHandle = NULL
    /\ isUniqueId \in BOOLEAN
    /\ permitted = FALSE
    /\ sensor = NoSensor
    /\ maxFrameSize = 0
    /\ ctx = [i \in Frames |-> NULL]
    /\ pArrays0 = NULL
    /\ refcnt = [b \in Buffers |-> 0]
    /\ bufSize = [b \in Buffers |-> 0]
    /\ openHandles = {}
    /\ captureOn = {}
    /\ queued = [i \in Frames |-> NULL]
    /\ cancelling = {}
    /\ acqOn = {}
    /\ fcb = NoFrame
    /\ frameBudget = MaxFrames
    /\ framesRemaining = 0
    /\ imageCounter = 0
    /\ badFrameCounter = 0
    /\ acquire = 0
    /\ adStatus = "ADStatusIdle"
    /\ shutter = 0
    /\ frameLoc = IdleFrame
    /\ crashed = FALSE
    /\ dueFrames = -1
    /\ lock = "none"
    /\ loc = [t \in Threads |-> IF t = "cmd" THEN [IdleLoc EXCEPT !.pc = "ctor"] ELSE IdleLoc]
    /\ linkEv = NoEvent
    /\ geom = NoGeom

\* The same once PvInitialize has succeeded.
InitDriver ==
    /\ PvApiInitialized = TRUE
    /\ InitSession

\* Without the link thread nothing reads uniqueId and uniqueIP before connectCamera
\* writes them: one value stands for them all.
Init ==
    /\ InitDriver
    /\ scan = NoScan
    /\ QuietExtras
    /\ uniqueId = 0
    /\ uniqueIP = 0

\* With the link thread they are whatever the memory held.
InitLink ==
    /\ InitDriver
    /\ scan = NoScan
    /\ QuietExtras
    /\ uniqueId \in {0} \cup DeviceIds
    /\ uniqueIP \in {0} \cup DeviceIds

\* ------------------------------------------------------- vendor library
\* Whether a vendor call on handle h can act: h is an open handle.
ValidHandle(h) == h # NULL /\ h \in openHandles

\* PvCaptureQueueClear(h): every frame queued on h comes back cancelled.
VendorQueueClear(h) ==
    [i \in Frames |-> IF ValidHandle(h) /\ queued[i] = h THEN NULL ELSE queued[i]]

\* PvCameraOpen/PvCameraOpenByAddr with ePvAccessMaster: the device grants master
\* access to one open handle at a time.
VendorCanOpen == openHandles = {}

\* ------------------------------------------------------ thread plumbing
AtPc(t, p) == loc[t].pc = p

SetLoc(t, r) == loc' = [loc EXCEPT ![t] = r]

Goto(t, p) == SetLoc(t, [loc[t] EXCEPT !.pc = p])

\* return asynError from connectCamera on thread t, because of step `why`
ReturnError(t, why) ==
    SetLoc(t, [loc[t] EXCEPT !.pc = "done", !.ret = "asynError", !.failed = why])

\* The call record of a thread entering connectCamera/disconnectCamera.
EnterLoc(entry, p) == [IdleLoc EXCEPT !.pc = p, !.top = entry]

\* --------------------------------------------------------- disconnectCamera
\* A release loop that releases nothing: C1 must tell it from the code's.
ReleaseFramesNone(rc, c, i) == rc

\* The frame buffers' release loop of disconnectCamera.
RECURSIVE ReleaseFrames(_, _, _)
ReleaseFrames(rc, c, i) ==
    IF i > MAX_PVAPI_FRAMES THEN rc
    ELSE ReleaseFrames(IF c[i] # NULL THEN Release(rc, c[i]) ELSE rc, c, i + 1)

\* What disconnectCamera goes on to when it returns `status` on thread t: back into
\* connectCamera (which ignores the status), or out to the caller.
DisconnectReturn(t, r, status) ==
    IF r.inner
    THEN SetLoc(t, [r EXCEPT !.pc = "c_resolve", !.inner = FALSE,
                             !.vstatus = "ePvErrSuccess", !.sig = "none"])
    ELSE SetLoc(t, [r EXCEPT !.pc = "done", !.ret = status])

\* A disconnectCamera that returns at once whatever the handle: C4 must tell it from
\* the code's.
DisconnectSkipped(t) ==
    /\ AtPc(t, "d_entry") /\ lock = t
    /\ DisconnectReturn(t, loc[t], "asynSuccess")
    /\ UNCHANGED <<extraVars, scan, geom, PvApiInitialized, isUniqueId, frameVars, sessionVars, vendorVars, lock,
                   linkEv>>

\* A disconnectCamera that keeps the lock over its vendor calls: C17 must tell it
\* from the code's.
DisconnectEntryLocked(t) ==
    /\ AtPc(t, "d_entry") /\ lock = t
    /\ IF ~PvApiInitialized
       THEN DisconnectReturn(t, loc[t], "asynError")
       ELSE IF PvHandle = NULL
       THEN DisconnectReturn(t, loc[t], "asynSuccess")
       ELSE Goto(t, "d_clear")
    /\ UNCHANGED <<extraVars, scan, geom, PvApiInitialized, isUniqueId, frameVars, sessionVars, vendorVars, lock,
                   linkEv>>

\* Entry of disconnectCamera: the two early returns, else the lock is released.
DisconnectEntry(t) ==
    /\ AtPc(t, "d_entry") /\ lock = t
    /\ IF ~PvApiInitialized
       THEN /\ DisconnectReturn(t, loc[t], "asynError")
            /\ UNCHANGED lock
       ELSE IF PvHandle = NULL
       THEN /\ DisconnectReturn(t, loc[t], "asynSuccess")
            /\ UNCHANGED lock
       ELSE /\ lock' = "none"
            /\ Goto(t, "d_clear")
    /\ UNCHANGED <<extraVars, scan, geom, PvApiInitialized, isUniqueId, frameVars, sessionVars, vendorVars, linkEv>>

\* status |= s for a vendor call of disconnectCamera: the call reports an error on
\* a handle that is not open, and can report one (err) on an open one it has acted on.
VendorStatus(status, h, err) ==
    IF err \/ ~ValidHandle(h) THEN "error" ELSE status

\* A release loop that leaves the descriptors' Context[1] as they were: C35 must tell
\* it from the code's.
KeepContext(c) == c

\* pFrame->Context[1] = 0 for every descriptor, in disconnectCamera's release loop.
ClearContext(c) == [i \in Frames |-> NULL]

\* A return value that keeps the vendor calls' errors: C34 must tell it from the
\* code's.
DisconnectStatusKept(vstatus, sig) ==
    IF vstatus # "ePvErrSuccess" THEN "asynError" ELSE sig

\* What disconnectCamera returns: status is assigned the signal's result, which
\* drops what the vendor calls had or-ed into it.
DisconnectStatus(vstatus, sig) == sig

\* PvCaptureQueueClear(this->PvHandle), with the lock released: the call.  Every
\* frame queued on the handle is handed back as cancelled.
DisconnectQueueClear(t) ==
    /\ AtPc(t, "d_clear")
    /\ queued' = VendorQueueClear(PvHandle)
    /\ cancelling' = cancelling \cup {i \in Frames : queued[i] # queued'[i]}
    /\ \E err \in BOOLEAN :
         SetLoc(t, [loc[t] EXCEPT !.pc = "d_clearing", !.vcalls = @ + 1,
                                  !.vstatus = VendorStatus(@, PvHandle, err)])
    /\ UNCHANGED <<extraVars, scan, geom, PvApiInitialized, isUniqueId, frameVars, sessionVars,
                   openHandles, captureOn, acqOn, lock, linkEv>>

\* PvCaptureQueueClear returns once no frame callback is left to run.
DisconnectQueueCleared(t) ==
    /\ AtPc(t, "d_clearing")
    /\ cancelling = {} /\ fcb = NoFrame
    /\ Goto(t, "d_end")
    /\ UNCHANGED <<extraVars, scan, geom, PvApiInitialized, isUniqueId, frameVars, sessionVars, vendorVars,
                   lock, linkEv>>

\* PvCaptureEnd(this->PvHandle), with the lock released.
DisconnectCaptureEnd(t) ==
    /\ AtPc(t, "d_end")
    /\ captureOn' = IF ValidHandle(PvHandle) THEN captureOn \ {PvHandle} ELSE captureOn
    /\ \E err \in BOOLEAN :
         SetLoc(t, [loc[t] EXCEPT !.pc = "d_close", !.vcalls = @ + 1,
                                  !.vstatus = VendorStatus(@, PvHandle, err)])
    /\ UNCHANGED <<extraVars, scan, geom, PvApiInitialized, isUniqueId, frameVars, sessionVars,
                   openHandles, queued, cancelling, acqOn, lock, linkEv>>

\* PvCameraClose(this->PvHandle), with the lock released: the call.  Once the frame
\* callback in progress has returned, the handle, its capture stream and its queue
\* are gone, and the frames still queued are handed back as cancelled.
DisconnectClose(t) ==
    /\ AtPc(t, "d_close")
    /\ fcb = NoFrame
    /\ IF ValidHandle(PvHandle)
       THEN /\ openHandles' = openHandles \ {PvHandle}
            /\ captureOn' = captureOn \ {PvHandle}
            /\ queued' = [i \in Frames |-> IF queued[i] = PvHandle THEN NULL ELSE queued[i]]
            /\ cancelling' = cancelling \cup {i \in Frames : queued[i] = PvHandle}
            /\ acqOn' = acqOn \ {PvHandle}
       ELSE UNCHANGED <<openHandles, captureOn, queued, cancelling, acqOn>>
    /\ \E err \in BOOLEAN :
         SetLoc(t, [loc[t] EXCEPT !.pc = "d_closing", !.vcalls = @ + 1,
                                  !.vstatus = VendorStatus(@, PvHandle, err)])
    /\ UNCHANGED <<extraVars, scan, geom, PvApiInitialized, isUniqueId, frameVars, sessionVars, lock, linkEv>>

\* PvCameraClose returns once no cancelled callback is left to run.
DisconnectClosed(t) ==
    /\ AtPc(t, "d_closing")
    /\ cancelling = {}
    /\ Goto(t, "d_lock")
    /\ UNCHANGED <<extraVars, scan, geom, PvApiInitialized, isUniqueId, frameVars, sessionVars, vendorVars,
                   lock, linkEv>>

\* lock(); release every descriptor's buffer; PvHandle = NULL; exceptionDisconnect.
DisconnectFinish(t) ==
    /\ AtPc(t, "d_lock") /\ lock = "none"
    /\ lock' = t
    /\ refcnt' = ReleaseFrames(refcnt, ctx, 1)
    /\ bufSize' = SizesInUse(bufSize, refcnt')
    /\ ctx' = ClearContext(ctx)
    /\ PvHandle' = NULL
    /\ \E sig \in {"asynSuccess", "asynError"} :
          DisconnectReturn(t, [loc[t] EXCEPT !.sent = Append(@, "disconnected"),
                                             !.sig = sig],
                           DisconnectStatus(loc[t].vstatus, sig))
    /\ UNCHANGED <<extraVars, scan, geom, PvApiInitialized, isUniqueId, frameVars, uniqueId, uniqueIP, permitted,
                   sensor, maxFrameSize, pArrays0, vendorVars, linkEv>>


\* ------------------------------------------------------------ connectCamera
\* The address of a device, as PvCameraIpSettingsGet and hostToIPAddr give it.
DeviceAddr(id) == id

\* bytesPerPixel and maxFrameSize as connectCamera computes them.
BytesPerPixel(s) ==
    LET b == (s.bits - 1) \div 8 + 1 IN IF s.type # "Mono" THEN b * 3 ELSE b

\* A maxFrameSize that adds to the one of the connection before: C15 must tell it
\* from the code's.
MaxFrameSizeGrows(s) == maxFrameSize + s.width * s.height * BytesPerPixel(s)

MaxFrameSizeOf(s) == s.width * s.height * BytesPerPixel(s)

\* Entry of connectCamera: the PvApiInitialized check, then disconnectCamera().
ConnectEntry(t) ==
    /\ AtPc(t, "c_entry") /\ lock = t
    /\ IF ~PvApiInitialized
       THEN ReturnError(t, "uninitialized")
       ELSE SetLoc(t, [loc[t] EXCEPT !.pc = "d_entry", !.inner = TRUE])
    /\ UNCHANGED <<extraVars, scan, geom, PvApiInitialized, isUniqueId, frameVars, sessionVars, vendorVars,
                   lock, linkEv>>

\* Resolution of cameraId: by unique id (PvCameraInfoEx) or by name/address
\* (hostToIPAddr, PvCameraInfoByAddrEx).  `host` and `found` are whether the two
\* lookups succeed, `access` the master bit of the PermittedAccess read.
ConnectResolve(t) ==
    /\ AtPc(t, "c_resolve") /\ lock = t
    /\ \E host \in BOOLEAN, found \in BOOLEAN, access \in BOOLEAN :
         IF isUniqueId
         THEN /\ host
              /\ uniqueId' = cameraDev
              /\ UNCHANGED uniqueIP
              /\ IF found
                 THEN permitted' = access /\ Goto(t, "c_access")
                 ELSE /\ ~access /\ UNCHANGED permitted
                      /\ ReturnError(t, "resolve")
         ELSE IF ~host
         THEN /\ ~found /\ ~access
              /\ UNCHANGED <<uniqueId, uniqueIP, permitted>>
              /\ ReturnError(t, "resolve")
         ELSE /\ uniqueIP' = DeviceAddr(cameraDev)
              /\ IF found
                 THEN /\ uniqueId' = cameraDev
                      /\ permitted' = access
                      /\ Goto(t, "c_access")
                 ELSE /\ ~access /\ UNCHANGED <<uniqueId, permitted>>
                      /\ ReturnError(t, "resolve")
    /\ UNCHANGED <<extraVars, scan, geom, PvApiInitialized, isUniqueId, frameVars, PvHandle, sensor, maxFrameSize,
                   ctx, pArrays0, refcnt, bufSize, vendorVars, lock, linkEv>>

\* What the n-th PvCameraInfoEx of the access loop gives: "denied" (success, master
\* access not permitted), "granted" (success, master access permitted) or "error".
\* The polls before the k-th are denied and the k-th gives `kind`.
PollOutcome(n, k, kind) == IF n = k THEN kind ELSE "denied"

\* The access loop: while master access is not permitted { sleep; PvCameraInfoEx;
\* on error return; if (++retryCount >= CONNECT_RETRY_COUNT) break; }, then the test
\* of the access flag.  Gives how the loop ended ("open": go on to open the camera,
\* "info": a poll failed, "access": access still denied) and its counts.
\* A loop bound that lets one more poll through: C3 must tell it from the code's.
RetriesLate(retryCount) == retryCount > CONNECT_RETRY_COUNT

\* if (++retryCount >= CONNECT_RETRY_COUNT) break;  (retryCount already incremented)
RetriesExhausted(retryCount) == retryCount >= CONNECT_RETRY_COUNT

RECURSIVE AccessLoop(_, _, _, _, _, _)
AccessLoop(perm, retryCount, polls, sleeps, k, kind) ==
    IF perm
    THEN [end |-> "open", permitted |-> TRUE, retry |-> retryCount, polls |-> polls,
          sleeps |-> sleeps]
    ELSE LET o == PollOutcome(polls + 1, k, kind) IN
         IF o = "error"
         THEN [end |-> "info", permitted |-> FALSE, retry |-> retryCount,
               polls |-> polls + 1, sleeps |-> sleeps + 1]
         ELSE IF RetriesExhausted(retryCount + 1)
         THEN [end |-> IF o = "granted" THEN "open" ELSE "access",
               permitted |-> (o = "granted"), retry |-> retryCount + 1,
               polls |-> polls + 1, sleeps |-> sleeps + 1]
         ELSE AccessLoop(o = "granted", retryCount + 1, polls + 1, sleeps + 1, k, kind)

\* The polls at which the device's answer changes: the first, the last but one, the last.
PollsOfInterest == {1, CONNECT_RETRY_COUNT - 1, CONNECT_RETRY_COUNT}

\* The access loop of connectCamera and the test after it, the port locked
\* throughout.  The locals are kept when the call returns from here.
ConnectAccessLoop(t) ==
    /\ AtPc(t, "c_access") /\ lock = t
    /\ \E k \in PollsOfInterest, kind \in {"denied", "granted", "error"} :
         LET r == AccessLoop(permitted, 0, 0, 0, k, kind) IN
         /\ permitted => (k = 1 /\ kind = "denied")
         /\ permitted' = r.permitted
         /\ IF r.end = "open"
            THEN Goto(t, "c_open")
            ELSE SetLoc(t, [loc[t] EXCEPT !.pc = "done", !.ret = "asynError",
                                          !.failed = r.end, !.retry = r.retry,
                                          !.polls = r.polls, !.sleeps = r.sleeps])
    /\ UNCHANGED <<extraVars, scan, geom, PvApiInitialized, isUniqueId, frameVars, PvHandle, uniqueId, uniqueIP,
                   sensor, maxFrameSize, ctx, pArrays0, refcnt, bufSize, vendorVars,
                   lock, linkEv>>

\* PvCameraOpen / PvCameraOpenByAddr: on success the handle is whatever value the
\* vendor library gives, possibly that of a handle closed before.
ConnectOpen(t) ==
    /\ AtPc(t, "c_open") /\ lock = t
    /\ \E ok \in BOOLEAN, h \in Handles :
         IF ok /\ VendorCanOpen
         THEN /\ PvHandle' = h
              /\ openHandles' = openHandles \cup {h}
              /\ Goto(t, "c_pkt")
         ELSE /\ h = Min(Handles)
              /\ PvHandle' = NULL
              /\ UNCHANGED openHandles
              /\ ReturnError(t, "open")
    /\ UNCHANGED <<extraVars, scan, geom, PvApiInitialized, isUniqueId, frameVars, uniqueId, uniqueIP, permitted,
                   sensor, maxFrameSize, ctx, pArrays0, refcnt, bufSize, captureOn, queued,
                   cancelling, acqOn, lock, linkEv>>

\* A packet-size step that goes on to the sensor data without starting the capture:
\* C28 must tell it from the code's.
ConnectPacketSizeOnly(t) ==
    /\ AtPc(t, "c_pkt") /\ lock = t
    /\ \E ok \in BOOLEAN :
         IF ok /\ ValidHandle(PvHandle) THEN Goto(t, "c_sensor") ELSE ReturnError(t, "pkt")
    /\ UNCHANGED <<extraVars, scan, geom, PvApiInitialized, isUniqueId, frameVars, sessionVars,
                   vendorVars, lock, linkEv>>

\* PvCaptureAdjustPacketSize
ConnectPacketSize(t) ==
    /\ AtPc(t, "c_pkt") /\ lock = t
    /\ \E ok \in BOOLEAN :
         IF ok /\ ValidHandle(PvHandle) THEN Goto(t, "c_start") ELSE ReturnError(t, "pkt")
    /\ UNCHANGED <<extraVars, scan, geom, PvApiInitialized, isUniqueId, frameVars, sessionVars, vendorVars,
                   lock, linkEv>>

\* PvCaptureStart
ConnectCaptureStart(t) ==
    /\ AtPc(t, "c_start") /\ lock = t
    /\ \E ok \in BOOLEAN :
         IF ok /\ ValidHandle(PvHandle)
         THEN captureOn' = captureOn \cup {PvHandle} /\ Goto(t, "c_sensor")
         ELSE UNCHANGED captureOn /\ ReturnError(t, "start")
    /\ UNCHANGED <<extraVars, scan, geom, PvApiInitialized, isUniqueId, frameVars, sessionVars, openHandles, queued,
                   cancelling, acqOn, lock, linkEv>>

\* The sensor attribute reads and the computation of maxFrameSize.
ConnectSensor(t) ==
    /\ AtPc(t, "c_sensor") /\ lock = t
    /\ \E ok \in BOOLEAN, s \in Sensors :
         IF ok /\ ValidHandle(PvHandle)
         THEN /\ sensor' = s
              /\ maxFrameSize' = MaxFrameSizeOf(s)
              /\ SetLoc(t, [loc[t] EXCEPT !.pc = "c_arm", !.i = 1,
                                          !.was = [sensor |-> sensor,
                                                   maxFrameSize |-> maxFrameSize]])
         ELSE /\ s = CHOOSE x \in Sensors : TRUE
              /\ UNCHANGED <<sensor, maxFrameSize>>
              /\ ReturnError(t, "sensor")
    /\ UNCHANGED <<extraVars, scan, geom, PvApiInitialized, isUniqueId, frameVars, PvHandle, uniqueId, uniqueIP,
                   permitted, ctx, pArrays0, refcnt, bufSize, vendorVars, lock, linkEv>>

\* The size connectCamera asks the pool for.
ConnectAllocSize == maxFrameSize

\* A vendor that takes a frame on any handle: C7 must tell it from the one modelled.
VendorQueueAny(h) == TRUE

\* PvCaptureQueueFrame(h, &PvFrames[i]): accepted on an open handle that is capturing.
VendorQueueOk(h) == ValidHandle(h) /\ h \in captureOn

\* One pass of the loop over PvFrames: alloc, bind to Context[1], queue.
ConnectArm(t) ==
    /\ AtPc(t, "c_arm") /\ lock = t
    /\ \E mem \in BOOLEAN, ok \in BOOLEAN :
         LET i == loc[t].i
             b == PoolAlloc(refcnt, mem) IN
         IF b = NULL
         THEN /\ ~ok
              /\ UNCHANGED <<ctx, refcnt, bufSize, queued>>
              /\ ReturnError(t, "alloc")
         ELSE /\ refcnt' = [refcnt EXCEPT ![b] = 1]
              /\ bufSize' = [bufSize EXCEPT ![b] = ConnectAllocSize]
              /\ ctx' = [ctx EXCEPT ![i] = b]
              /\ IF ok /\ VendorQueueOk(PvHandle)
                 THEN /\ queued' = [queued EXCEPT ![i] = PvHandle]
                      /\ SetLoc(t, [loc[t] EXCEPT !.i = @ + 1,
                                       !.pc = IF i = MAX_PVAPI_FRAMES THEN "c_params" ELSE "c_arm"])
                 ELSE /\ UNCHANGED queued
                      /\ ReturnError(t, "queue")
    /\ UNCHANGED <<extraVars, scan, geom, PvApiInitialized, isUniqueId, frameVars, PvHandle, uniqueId, uniqueIP,
                   permitted, sensor, maxFrameSize, pArrays0, openHandles, captureOn,
                   cancelling, acqOn, lock, linkEv>>

\* Identity strings and sizes into the parameter library,
\* setIntegerParam(PSBadFrameCounter, 0), readParameters(), readStats().
\* The call returns asynError when the parameter library refuses a value ("params"),
\* and the status of readParameters() or of readStats() when an attribute read of
\* theirs fails or gives a string that is in none of the tables ("readback").
ConnectParams(t) ==
    /\ AtPc(t, "c_params") /\ lock = t
    /\ badFrameCounter' = 0
    /\ \E set \in BOOLEAN, read \in BOOLEAN :
         /\ ~set => read
         /\ IF ~set THEN ReturnError(t, "params")
            ELSE IF read /\ ValidHandle(PvHandle) THEN Goto(t, "c_abort")
            ELSE ReturnError(t, "readback")
    /\ UNCHANGED <<extraVars, scan, geom, PvApiInitialized, isUniqueId, sessionVars, vendorVars, fcb, frameBudget,
                   framesRemaining, imageCounter, acquire, adStatus, shutter, frameLoc,
                   crashed, dueFrames, lock, linkEv>>

\* PvCommandRun(AcquisitionAbort), syncTimer(): the status of the abort command, of
\* the TimeStampReset command in syncTimer and of syncTimer itself is not looked at.
ConnectAbortSync(t) ==
    /\ AtPc(t, "c_abort") /\ lock = t
    /\ \E abortOk \in BOOLEAN, resetOk \in BOOLEAN :
         /\ acqOn' = IF abortOk THEN acqOn \ {PvHandle} ELSE acqOn
         /\ SetLoc(t, [loc[t] EXCEPT !.pc = "c_signal",
                          !.ignored = (IF abortOk THEN {} ELSE {"AcquisitionAbort"})
                                      \cup (IF resetOk THEN {} ELSE {"TimeStampReset"})])
    /\ UNCHANGED <<extraVars, scan, geom, PvApiInitialized, isUniqueId, frameVars, sessionVars, openHandles,
                   captureOn, queued, cancelling, lock, linkEv>>

\* pasynManager->exceptionConnect
ConnectSignal(t) ==
    /\ AtPc(t, "c_signal") /\ lock = t
    /\ \E ok \in BOOLEAN :
         LET r == [loc[t] EXCEPT !.sent = Append(@, "connected"), !.pc = "done",
                                 !.ignored = {}] IN
         IF ok THEN SetLoc(t, [r EXCEPT !.ret = "asynSuccess"])
               ELSE SetLoc(t, [r EXCEPT !.ret = "asynError", !.failed = "signal"])
    /\ UNCHANGED <<extraVars, scan, geom, PvApiInitialized, isUniqueId, frameVars, sessionVars, vendorVars,
                   lock, linkEv>>


\* ------------------------------------------------------------------ callers
\* The constructor's connection attempt: if (PvHandle == NULL) { lock();
\* connectCamera(); unlock(); }
Constructor ==
    /\ AtPc("cmd", "ctor") /\ lock = "none"
    /\ IF PvHandle = NULL
       THEN lock' = "cmd" /\ SetLoc("cmd", EnterLoc("ctor", "c_entry"))
       ELSE UNCHANGED lock /\ SetLoc("cmd", IdleLoc)
    /\ UNCHANGED <<extraVars, scan, geom, PvApiInitialized, isUniqueId, frameVars, sessionVars, vendorVars, linkEv>>

\* prosilica::connect, called by asynManager with the port locked
CmdConnect ==
    /\ AtPc("cmd", "idle") /\ lock = "none"
    /\ lock' = "cmd"
    /\ SetLoc("cmd", EnterLoc("connect", "c_entry"))
    /\ UNCHANGED <<extraVars, scan, geom, PvApiInitialized, isUniqueId, frameVars, sessionVars, vendorVars, linkEv>>

\* prosilica::disconnect, called by asynManager with the port locked
CmdDisconnect ==
    /\ AtPc("cmd", "idle") /\ lock = "none"
    /\ lock' = "cmd"
    /\ SetLoc("cmd", EnterLoc("disconnect", "d_entry"))
    /\ UNCHANGED <<extraVars, scan, geom, PvApiInitialized, isUniqueId, frameVars, sessionVars, vendorVars, linkEv>>

\* connectCamera/disconnectCamera has returned: the caller unlocks.  In
\* cameraLinkCallback the scan of the one-instance list ends here.
CallerReturn(t) ==
    /\ AtPc(t, "done") /\ lock = t
    /\ lock' = "none"
    /\ SetLoc(t, IdleLoc)
    /\ linkEv' = IF t = "link" THEN NoEvent ELSE linkEv
    /\ UNCHANGED <<extraVars, scan, geom, PvApiInitialized, isUniqueId, frameVars, sessionVars, vendorVars>>

\* ------------------------------------------------------- cameraLinkCallback
\* The vendor library calls cameraLinkCallback(Event, UniqueId).
LinkEvent ==
    /\ AtPc("link", "idle")
    /\ \E kind \in {"ePvLinkAdd", "ePvLinkRemove"}, id \in DeviceIds :
         linkEv' = [kind |-> kind, id |-> id]
    /\ Goto("link", "l_lock")
    /\ UNCHANGED <<extraVars, scan, geom, PvApiInitialized, isUniqueId, frameVars, sessionVars, vendorVars, lock>>

\* Whether cameraLinkCallback calls connectCamera() for an ePvLinkAdd of device id.
LinkAddMatches(id) ==
    IF uniqueId = 0 THEN DeviceAddr(id) = uniqueIP ELSE id = uniqueId

\* Whether cameraLinkCallback calls disconnectCamera() for an ePvLinkRemove of device id.
LinkRemoveMatches(id) == id = uniqueId

\* pDriver->lock() and the switch on the event.
LinkCallback ==
    /\ AtPc("link", "l_lock") /\ lock = "none"
    /\ IF linkEv.kind = "ePvLinkAdd" /\ LinkAddMatches(linkEv.id)
       THEN lock' = "link" /\ SetLoc("link", EnterLoc("linkAdd", "c_entry")) /\ UNCHANGED linkEv
       ELSE IF linkEv.kind = "ePvLinkRemove" /\ LinkRemoveMatches(linkEv.id)
       THEN lock' = "link" /\ SetLoc("link", EnterLoc("linkRemove", "d_entry")) /\ UNCHANGED linkEv
       ELSE UNCHANGED lock /\ SetLoc("link", IdleLoc) /\ linkEv' = NoEvent
    /\ UNCHANGED <<extraVars, scan, geom, PvApiInitialized, isUniqueId, frameVars, sessionVars, vendorVars>>

\* --------------------------------------------------- writeInt32(ADAcquire)
\* The image modes and the number of images of the multiple mode.
ImageModes == {"ADImageSingle", "ADImageMultiple", "ADImageContinuous"}

\* framesRemaining as writeInt32(ADAcquire, 1) sets it.
FramesToCollect(imageMode, numImages) ==
    IF imageMode = "ADImageSingle" THEN 1
    ELSE IF imageMode = "ADImageMultiple" THEN numImages
    ELSE -1

\* A writeInt32(ADAcquire, value) that runs the hardware command first and leaves
\* the counter, the status and the shutter for later: C13 must tell it from the code's.
WriteAcquireCommandFirst ==
    /\ AtPc("cmd", "idle") /\ lock = "none"
    /\ lock' = "cmd"
    /\ \E value \in {0, 1}, imageMode \in ImageModes :
         /\ value = 0 => imageMode = "ADImageSingle"
         /\ acquire' = value
         /\ acqOn' = IF value = 0 THEN acqOn \ {PvHandle}
                     ELSE IF ValidHandle(PvHandle) THEN acqOn \cup {PvHandle} ELSE acqOn
         /\ SetLoc("cmd", [EnterLoc("writeInt32", "w_cmd") EXCEPT
                                 !.value = value, !.mode = imageMode])
    /\ UNCHANGED <<extraVars, scan, geom, PvApiInitialized, isUniqueId, sessionVars, openHandles, captureOn, queued,
                   cancelling, fcb, frameBudget, framesRemaining, dueFrames, adStatus,
                   shutter, imageCounter, badFrameCounter, frameLoc, crashed, linkEv>>

\* writeInt32(ADAcquire, value), called with the port locked, up to the hardware
\* command: setIntegerParam(function, value); for a start framesRemaining from
\* ADImageMode and ADNumImages, ADStatus acquiring, setShutter(1); for a stop ADStatus
\* idle, setShutter(0).
WriteAcquire ==
    /\ AtPc("cmd", "idle") /\ lock = "none"
    /\ lock' = "cmd"
    /\ \E value \in {0, 1}, imageMode \in ImageModes :
         /\ acquire' = value
         /\ IF value # 0
            THEN /\ framesRemaining' = FramesToCollect(imageMode, NumImages)
                 /\ dueFrames' = IF imageMode = "ADImageMultiple" THEN NumImages ELSE -1
                 /\ adStatus' = "ADStatusAcquire"
                 /\ shutter' = 1
            ELSE /\ imageMode = "ADImageSingle"
                 /\ UNCHANGED <<framesRemaining, dueFrames>>
                 /\ adStatus' = "ADStatusIdle"
                 /\ shutter' = 0
         /\ SetLoc("cmd", [EnterLoc("writeInt32", "w_cmd") EXCEPT
                                 !.value = value, !.mode = imageMode])
    /\ UNCHANGED <<extraVars, scan, geom, PvApiInitialized, isUniqueId, sessionVars, vendorVars, fcb, frameBudget,
                   imageCounter, badFrameCounter, frameLoc, crashed, linkEv>>

\* PvCommandRun(this->PvHandle, "AcquisitionStart") or "AcquisitionAbort".
WriteAcquireCommand ==
    /\ AtPc("cmd", "w_cmd") /\ lock = "cmd"
    /\ acqOn' = IF loc["cmd"].value = 0 THEN acqOn \ {PvHandle}
                ELSE IF ValidHandle(PvHandle) THEN acqOn \cup {PvHandle} ELSE acqOn
    /\ Goto("cmd", "w_read")
    /\ UNCHANGED <<extraVars, scan, geom, PvApiInitialized, isUniqueId, sessionVars, frameVars, openHandles,
                   captureOn, queued, cancelling, lock, linkEv>>

\* readParameters(), the return of writeInt32 and the unlock of the port.
WriteAcquireReturn ==
    /\ AtPc("cmd", "w_read") /\ lock = "cmd"
    /\ lock' = "none"
    /\ SetLoc("cmd", IdleLoc)
    /\ UNCHANGED <<extraVars, scan, geom, PvApiInitialized, isUniqueId, sessionVars, frameVars, vendorVars, linkEv>>

\* ------------------------------------------------------------ frameCallback
\* tPvFrame.Status and tPvFrame.Format values a completion can carry.  ePvFmtYuv411
\* is a format the switch of frameCallback has no case for.
FrameStatuses == {"ePvErrSuccess", "ePvErrDataMissing"}
PixelFormats  == {"ePvFmtMono8", "ePvFmtBayer8", "ePvFmtYuv411"}

\* The vendor library completes the transfer into descriptor i: the frame leaves
\* the queue and frameCallbackC is called with it.
FrameDone ==
    /\ fcb = NoFrame /\ frameBudget > 0
    /\ \E i \in Frames, status \in FrameStatuses, fmt \in PixelFormats :
         /\ queued[i] # NULL
         /\ queued[i] \in openHandles \cap captureOn \cap acqOn
         /\ status # "ePvErrSuccess" => fmt = "ePvFmtMono8"
         /\ fcb' = [i |-> i, status |-> status, fmt |-> fmt]
         /\ queued' = [queued EXCEPT ![i] = NULL]
    /\ frameBudget' = frameBudget - 1
    /\ frameLoc' = [IdleFrame EXCEPT !.pc = "called"]
    /\ UNCHANGED <<extraVars, scan, geom, PvApiInitialized, isUniqueId, sessionVars, openHandles, captureOn,
                   cancelling, acqOn, framesRemaining, imageCounter, badFrameCounter,
                   acquire, adStatus, shutter, crashed, dueFrames, lock, loc, linkEv>>

\* A cancelled completion that is queued again like any other: C26 must tell it
\* from the code's.
FrameCancelledRequeue ==
    /\ \E i \in cancelling :
         /\ cancelling' = cancelling \ {i}
         /\ queued' = IF VendorQueueOk(PvHandle) THEN [queued EXCEPT ![i] = PvHandle]
                       ELSE queued
    /\ UNCHANGED <<extraVars, scan, geom, PvApiInitialized, isUniqueId, sessionVars, openHandles,
                   captureOn, acqOn, frameVars, lock, loc, linkEv>>

\* frameCallback with Status == ePvErrCancelled: returns before anything else.
FrameCancelled ==
    /\ \E i \in cancelling : cancelling' = cancelling \ {i}
    /\ UNCHANGED <<extraVars, scan, geom, PvApiInitialized, isUniqueId, sessionVars, openHandles, captureOn,
                   queued, acqOn, frameVars, lock, loc, linkEv>>

\* The pixel formats the switch of frameCallback has a case for.
SupportedFormat(fmt) == fmt \in {"ePvFmtMono8", "ePvFmtBayer8"}

\* A decrement that does not test the sign: C12 must tell it from the code's.
FramesLeftAlways(n) == n - 1

\* framesRemaining after the "see if acquisition is done" decrement.
FramesLeft(n) == IF n > 0 THEN n - 1 ELSE n

\* A bad-frame count that goes up by two: C27 must tell it from the code's.
BadFramesTwice(n) == n + 2

\* badFrameCounter++ of the bad-frame branch.
BadFrames(n) == n + 1

\* frameCallback for a completion that is not cancelled, from lock() to
\* callParamCallbacks().  Inputs: conv (PSBayerConvert is not None), cb
\* (NDArrayCallbacks), memRgb and memNew (the pool can serve the two alloc calls).
FrameCallback ==
    /\ frameLoc.pc = "called" /\ lock = "none"
    /\ \E conv \in BOOLEAN, cb \in BOOLEAN, memRgb \in BOOLEAN, memNew \in BOOLEAN :
         LET i        == fcb.i
             given    == ctx[i]
             good     == given # NULL /\ fcb.status = "ePvErrSuccess"
             convert  == fcb.fmt = "ePvFmtBayer8" /\ conv
             image    == IF convert THEN PoolAlloc(refcnt, memRgb) ELSE given
             rcConv   == IF convert /\ image # NULL
                         THEN Release([refcnt EXCEPT ![image] = 1], given) ELSE refcnt
             szConv   == IF convert /\ image # NULL
                         THEN [bufSize EXCEPT ![image] = maxFrameSize] ELSE bufSize
             rcKeep   == ReleasePrevious(rcConv, pArrays0)
             fresh    == PoolAlloc(rcKeep, memNew)
             rcNew    == IF fresh # NULL THEN [rcKeep EXCEPT ![fresh] = 1] ELSE rcKeep
             szNew    == IF fresh # NULL THEN [szConv EXCEPT ![fresh] = maxFrameSize] ELSE szConv
             left     == FramesLeft(framesRemaining)
             r        == [pc |-> "queue", given |-> given, prev |-> pArrays0,
                          requeued |-> FALSE,
                          autostop |-> good /\ left = 0,
                          branch |-> IF good THEN "good" ELSE "bad",
                          delivered |-> IF good /\ cb THEN image ELSE NULL,
                          freed |-> IF ~good THEN <<>>
                                    ELSE (IF convert THEN <<given>> ELSE <<>>)
                                         \o (IF pArrays0 # NULL THEN <<pArrays0>> ELSE <<>>)]
         IN
         /\ fcb.fmt # "ePvFmtBayer8" => ~conv
         /\ ~(good /\ convert) => memRgb
         /\ ~good => ~cb /\ memNew
         /\ IF ~good
            THEN \* the bad-frame branch
                 /\ badFrameCounter' = BadFrames(badFrameCounter)
                 /\ frameLoc' = r
                 /\ lock' = "frame"
                 /\ UNCHANGED <<ctx, pArrays0, refcnt, bufSize, framesRemaining, imageCounter,
                                acquire, adStatus, shutter, crashed, dueFrames>>
            ELSE IF image = NULL
            THEN \* pImage->pData of the NULL the pool returned for the RGB image
                 /\ ~cb /\ memNew
                 /\ crashed' = TRUE
                 /\ lock' = "frame"
                 /\ UNCHANGED <<ctx, pArrays0, refcnt, bufSize, framesRemaining, imageCounter,
                                badFrameCounter, acquire, adStatus, shutter, frameLoc,
                                dueFrames>>
            ELSE /\ framesRemaining' = left
                 /\ dueFrames' = IF SupportedFormat(fcb.fmt) THEN FramesLeft(dueFrames)
                                 ELSE dueFrames
                 /\ IF left = 0
                    THEN shutter' = 0 /\ acquire' = 0 /\ adStatus' = "ADStatusIdle"
                    ELSE UNCHANGED <<shutter, acquire, adStatus>>
                 /\ imageCounter' = imageCounter + 1
                 /\ pArrays0' = image
                 /\ ctx' = [ctx EXCEPT ![i] = fresh]
                 /\ refcnt' = rcNew
                 /\ bufSize' = SizesInUse(szNew, rcNew)
                 /\ frameLoc' = r
                 /\ lock' = "frame"
                 \* pImage->pData of the NULL the pool returned for the new buffer
                 /\ crashed' = (fresh = NULL)
                 /\ UNCHANGED badFrameCounter
    /\ UNCHANGED <<extraVars, scan, geom, PvApiInitialized, isUniqueId, PvHandle, uniqueId, uniqueIP, permitted,
                   sensor, maxFrameSize, vendorVars, fcb, frameBudget, loc, linkEv>>

\* PvCaptureQueueFrame(this->PvHandle, pFrame, frameCallbackC); its status is not
\* looked at.
FrameRequeue ==
    /\ frameLoc.pc = "queue" /\ lock = "frame"
    /\ \E qok \in BOOLEAN :
         LET accepted == qok /\ VendorQueueOk(PvHandle) IN
         /\ queued' = IF accepted THEN [queued EXCEPT ![fcb.i] = PvHandle] ELSE queued
         /\ frameLoc' = [frameLoc EXCEPT !.pc = "unlock", !.requeued = accepted]
    /\ UNCHANGED <<extraVars, scan, geom, PvApiInitialized, isUniqueId, sessionVars, openHandles, captureOn,
                   cancelling, acqOn, fcb, frameBudget, framesRemaining, imageCounter,
                   badFrameCounter, acquire, adStatus, shutter, crashed, dueFrames, lock,
                   loc, linkEv>>

\* unlock() and the return of frameCallback.
FrameReturn ==
    /\ frameLoc.pc = "unlock" /\ lock = "frame"
    /\ lock' = "none"
    /\ fcb' = NoFrame
    /\ frameLoc' = IdleFrame
    /\ UNCHANGED <<extraVars, scan, geom, PvApiInitialized, isUniqueId, sessionVars, vendorVars, frameBudget,
                   framesRemaining, imageCounter, badFrameCounter, acquire, adStatus,
                   shutter, crashed, dueFrames, loc, linkEv>>

\* ------------------------------------------------- setGeometry, getGeometry
\* The largest int.
INT_MAX == 2147483647

\* The largest binning factor of the camera.
MaxBinning == 2

\* The values a client writes to a geometry parameter.
GeomValues == {-1, 0, 1, 2, 3, 5, INT_MAX}

\* ADMaxSizeX, ADMaxSizeY: the sensor size connectCamera put in the parameter library.
MaxSize(a) == IF a = "X" THEN sensor.width ELSE sensor.height

\* Whether the int addition a + b overflows.
AddOverflows(a, b) == (a > 0 /\ b > INT_MAX - a) \/ (a < 0 /\ b < (-INT_MAX - 1) - a)

\* if (min + size > maxSize): an int addition; when it overflows the behaviour is
\* undefined and the test comes out either way (ub).
ExceedsMax(min, size, max, ub) ==
    IF AddOverflows(min, size) THEN ub ELSE min + size > max

\* The int division a / b of C, b >= 1: the quotient truncated towards zero.
CDiv(a, b) == IF a >= 0 THEN a \div b ELSE -((-a) \div b)

\* An int passed as a tPvUint32: a negative value becomes 2^31 + v, past the int range.
ToUint32(n) == [big |-> n < 0, v |-> IF n < 0 THEN (n + INT_MAX) + 1 ELSE n]

\* PvAttrUint32Set of a region attribute: the camera takes a value in lo..hi.
AttrAccepts(u, lo, hi) == ~u.big /\ lo <= u.v /\ u.v <= hi

\* The size of the sensor along axis a at binning b, in binned pixels.
BinnedMax(a, b) == MaxSize(a) \div b

\* PvAttrUint32Set(BinningX/BinningY, b) on camera attributes h of axis a:
\* ePvErrNotFound without the attribute, an error out of range; a new binning brings
\* the region back inside the binned sensor.
SetBinning(h, a, b) ==
    IF ~geom.binning THEN [st |-> "ePvErrNotFound", hw |-> h]
    ELSE IF ~AttrAccepts(ToUint32(b), 1, MaxBinning) THEN [st |-> "ePvErrOutOfRange", hw |-> h]
    ELSE [st |-> "ePvErrSuccess",
          hw |-> LET region == IF h.region > BinnedMax(a, b) - 1
                               THEN BinnedMax(a, b) - 1 ELSE h.region
                 IN [bin |-> b, region |-> region,
                     width |-> IF h.width > BinnedMax(a, b) - region
                               THEN BinnedMax(a, b) - region ELSE h.width]]

\* PvAttrUint32Set(RegionX/RegionY, v): the camera takes an offset on the binned
\* sensor and keeps the region inside it.
SetRegion(h, a, u) ==
    IF AttrAccepts(u, 0, BinnedMax(a, h.bin) - 1)
    THEN [h EXCEPT !.region = u.v,
                   !.width = IF @ > BinnedMax(a, h.bin) - u.v
                             THEN BinnedMax(a, h.bin) - u.v ELSE @]
    ELSE h

\* PvAttrUint32Set(Width/Height, v): the camera takes a size that fits behind the offset.
SetWidth(h, a, u) ==
    IF AttrAccepts(u, 1, BinnedMax(a, h.bin) - h.region) THEN [h EXCEPT !.width = u.v] ELSE h

\* A status test that takes ePvErrNotFound for a failure like any other: C31 must
\* tell it from the code's.
BinningStatusStrict(st) == st = "ePvErrSuccess"

\* if (s != ePvErrNotFound) status |= s;  whether status stays as it was.
BinningStatusOk(st) == st \in {"ePvErrSuccess", "ePvErrNotFound"}

\* setGeometry on one axis: p the axis' parameters, h its camera attributes, ub the
\* outcome of an overflowing clamp test.  Gives the parameters, the attributes and
\* what was read, applied and left in ADSize.
SetAxis(p, h, a, ub) ==
    LET bin   == IF p.bin < 1 THEN 1 ELSE p.bin
        clamp == ExceedsMax(p.min, p.size, MaxSize(a), ub)
        size  == IF clamp THEN MaxSize(a) - p.min ELSE p.size
        sb    == SetBinning(h, a, bin)
        ok    == BinningStatusOk(sb.st)
    IN  [par  |-> [p EXCEPT !.size = size],
         req  |-> [bin |-> bin, min |-> p.min, size |-> p.size],
         size |-> size,
         ok   |-> ok,
         hw   |-> sb.hw]

\* The Region and Width writes of setGeometry, made when no call before failed.
ApplyAxis(r, a) ==
    SetWidth(SetRegion(r.hw, a, ToUint32(CDiv(r.req.min, r.req.bin))), a,
             ToUint32(CDiv(r.size, r.req.bin)))

\* Whether the camera takes the Region and the Width write of ApplyAxis.
ApplyOk(r, a) ==
    LET region == ToUint32(CDiv(r.req.min, r.req.bin))
        h      == SetRegion(r.hw, a, region)
    IN  /\ AttrAccepts(region, 0, BinnedMax(a, r.hw.bin) - 1)
        /\ AttrAccepts(ToUint32(CDiv(r.size, r.req.bin)), 1, BinnedMax(a, h.bin) - h.region)

\* PvAttrUint32Get(BinningX/BinningY): ePvErrNotFound without the attribute.
GetBinning(binning) == IF binning THEN "ePvErrSuccess" ELSE "ePvErrNotFound"

\* getGeometry on one axis: binning 1 when the camera has none.
GetAxis(h) ==
    LET bin == IF geom.binning THEN h.bin ELSE 1 IN
    [bin |-> bin, min |-> h.region * bin, size |-> h.width * bin]

\* The geometry parameters of writeInt32.
GeomFunctions == {"bin", "min", "size"}

\* writeInt32(function, value) for ADBinX/Y, ADMinX/Y, ADSizeX/Y, with the port
\* locked: setIntegerParam(function, value), then setGeometry().
GeomWrite ==
    /\ geom.pc = "idle" /\ AtPc("cmd", "idle") /\ lock = "none"
    /\ ValidHandle(PvHandle)
    /\ lock' = "cmd"
    /\ \E f \in GeomFunctions, ax \in Axes, value \in GeomValues, ub \in BOOLEAN :
         LET par == [geom.par EXCEPT ![ax][f] = value]
             r   == [a \in Axes |-> SetAxis(par[a], geom.hw[a], a, ub)]
             ok  == \A a \in Axes : r[a].ok
         IN
         /\ ub => \E a \in Axes : AddOverflows(par[a].min, par[a].size)
         /\ geom' = [geom EXCEPT
                        !.pc = "readback",
                        !.par = [a \in Axes |-> r[a].par],
                        !.req = [a \in Axes |-> r[a].req],
                        !.clamped = [a \in Axes |-> r[a].size],
                        !.applied = [a \in Axes |->
                                       IF ok THEN ToUint32(CDiv(r[a].size, r[a].req.bin))
                                       ELSE NoValue],
                        !.hw = [a \in Axes |-> IF ok THEN ApplyAxis(r[a], a) ELSE r[a].hw],
                        !.status.set = ok /\ \A a \in Axes : ApplyOk(r[a], a)]
    /\ SetLoc("cmd", EnterLoc("writeInt32", "w_geom"))
    /\ UNCHANGED <<extraVars, scan, PvApiInitialized, isUniqueId, sessionVars, vendorVars, frameVars,
                   linkEv>>

\* readParameters() at the end of writeInt32: getGeometry() puts the camera's
\* attributes in the parameter library; then the return and the unlock of the port.
GeomReadBack ==
    /\ geom.pc = "readback" /\ AtPc("cmd", "w_geom") /\ lock = "cmd"
    /\ geom' = [geom EXCEPT !.pc = "idle",
                            !.par = [a \in Axes |-> GetAxis(geom.hw[a])],
                            !.status.get = BinningStatusOk(GetBinning(geom.binning))]
    /\ lock' = "none"
    /\ SetLoc("cmd", IdleLoc)
    /\ UNCHANGED <<extraVars, scan, PvApiInitialized, isUniqueId, sessionVars, vendorVars, frameVars,
                   linkEv>>

\* --------------------------------------------------------------------- Next
ThreadStep(t) ==
    \/ DisconnectEntry(t)
    \/ DisconnectQueueClear(t)
    \/ DisconnectQueueCleared(t)
    \/ DisconnectCaptureEnd(t)
    \/ DisconnectClose(t)
    \/ DisconnectClosed(t)
    \/ DisconnectFinish(t)
    \/ ConnectEntry(t)
    \/ ConnectResolve(t)
    \/ ConnectAccessLoop(t)
    \/ ConnectOpen(t)
    \/ ConnectPacketSize(t)
    \/ ConnectCaptureStart(t)
    \/ ConnectSensor(t)
    \/ ConnectArm(t)
    \/ ConnectParams(t)
    \/ ConnectAbortSync(t)
    \/ ConnectSignal(t)
    \/ CallerReturn(t)

\* The constructor, the asyn command thread and the vendor frame thread.
Next ==
    /\ ~crashed
    /\ \/ Constructor
       \/ CmdConnect
       \/ CmdDisconnect
       \/ WriteAcquire
       \/ WriteAcquireCommand
       \/ WriteAcquireReturn
       \/ FrameDone
       \/ FrameCancelled
       \/ FrameCallback
       \/ FrameRequeue
       \/ FrameReturn
       \/ ThreadStep("cmd")

Spec == Init /\ [][Next]_vars

\* The constructor, the asyn command thread and the vendor link-event thread, with
\* no acquisition started.
NextLink ==
    /\ ~crashed
    /\ \/ Constructor
       \/ CmdConnect
       \/ CmdDisconnect
       \/ FrameCancelled
       \/ LinkEvent
       \/ LinkCallback
       \/ \E t \in Threads : ThreadStep(t)

SpecLink == InitLink /\ [][NextLink]_vars

\* A session the constructor has connected, no frame received yet.
InitConnected ==
    /\ PvApiInitialized = TRUE
    /\ isUniqueId = TRUE
    /\ uniqueId = cameraDev /\ uniqueIP = 0
    /\ permitted = TRUE
    /\ PvHandle = Min(Handles)
    /\ openHandles = {PvHandle} /\ captureOn = {PvHandle}
    /\ sensor \in Sensors
    /\ maxFrameSize = MaxFrameSizeOf(sensor)
    /\ ctx = [i \in Frames |-> i]
    /\ pArrays0 = NULL
    /\ refcnt = [b \in Buffers |-> IF b \in Frames THEN 1 ELSE 0]
    /\ bufSize = [b \in Buffers |-> IF b \in Frames THEN maxFrameSize ELSE 0]
    /\ queued = [i \in Frames |-> PvHandle]
    /\ cancelling = {}
    /\ fcb = NoFrame /\ frameBudget = MaxFrames /\ frameLoc = IdleFrame
    /\ dueFrames = -1
    /\ imageCounter = 0 /\ badFrameCounter = 0
    /\ crashed = FALSE
    /\ lock = "none"
    /\ loc = [t \in Threads |-> IdleLoc]
    /\ linkEv = NoEvent
    /\ scan = NoScan

\* The connected session idle, the camera's region as the camera starts (the whole
\* sensor, no binning) and read into the parameter library.
InitIdleCamera ==
    /\ InitConnected
    /\ acqOn = {} /\ framesRemaining = 0
    /\ acquire = 0 /\ adStatus = "ADStatusIdle" /\ shutter = 0
    /\ \E cmos \in BOOLEAN :
         LET hw == [a \in Axes |-> [bin |-> 1, region |-> 0, width |-> MaxSize(a)]] IN
         geom = [NoGeom EXCEPT !.binning = ~cmos, !.hw = hw,
                               !.par = [a \in Axes |-> [bin |-> 1, min |-> 0,
                                                          size |-> MaxSize(a)]],
                               !.req = [a \in Axes |-> [bin |-> 1, min |-> 0,
                                                          size |-> MaxSize(a)]],
                               !.clamped = [a \in Axes |-> MaxSize(a)]]

\* The same, with nothing but the geometry commands looked at.
InitGeom == InitIdleCamera /\ QuietExtras

\* The command thread writing geometry parameters of a connected camera.
NextGeom ==
    \/ GeomWrite
    \/ GeomReadBack

SpecGeom == InitGeom /\ [][NextGeom]_vars

\* The connected session after writeInt32(ADAcquire, 1) in continuous mode.
InitLive ==
    /\ InitConnected
    /\ acqOn = {PvHandle} /\ framesRemaining = -1
    /\ acquire = 1 /\ adStatus = "ADStatusAcquire" /\ shutter = 1
    /\ geom = NoGeom
    /\ QuietExtras

\* The steps of a disconnect() on the command thread, up to its caller's unlock.
DisconnectStep ==
    \/ DisconnectEntry("cmd")
    \/ DisconnectQueueClear("cmd")
    \/ DisconnectQueueCleared("cmd")
    \/ DisconnectCaptureEnd("cmd")
    \/ DisconnectClose("cmd")
    \/ DisconnectClosed("cmd")
    \/ DisconnectFinish("cmd")
    \/ CallerReturn("cmd")

\* The steps of the vendor frame thread once a completion is there to deliver.
CallbackStep ==
    \/ FrameCancelled
    \/ FrameCallback
    \/ FrameRequeue
    \/ FrameReturn

\* disconnect() on the command thread against the frame thread of an acquiring camera.
NextLive ==
    /\ ~crashed
    /\ \/ CmdDisconnect
       \/ FrameDone
       \/ DisconnectStep
       \/ CallbackStep

\* Both threads are scheduled, and a thread waiting for the mutex gets it in the end
\* when it is released again and again.
SpecLive ==
    /\ InitLive /\ [][NextLive]_vars
    /\ SF_vars(~crashed /\ DisconnectStep)
    /\ SF_vars(~crashed /\ CallbackStep)

\* ---------------------------------------- cameraLinkCallback over cameraList
\* the drivers constructed in the process
NumInstances == 2
\* the addresses a camera or a driver's cameraId can have
NumAddresses == 2

Instances == 1..NumInstances
Addresses == 1..NumAddresses

\* What one node of cameraList can hold: a driver holds a handle only once
\* connectCamera has written its uniqueId.
InstanceStates ==
    {d \in [uniqueId : {0} \cup DeviceIds, uniqueIP : {0} \cup Addresses,
            connected : BOOLEAN] : d.connected => d.uniqueId # 0}

\* pDriver->connectCamera() as cameraLinkCallback sees it: its status, and the driver
\* after it.  A success leaves a handle and the uniqueId resolved; a failure leaves
\* uniqueId as far as resolution got and, after PvCameraOpen, the handle.
ConnectCameraOn(d, status, resolved, opened) ==
    LET id == IF d.uniqueId = 0 /\ (status = "asynSuccess" \/ opened) THEN resolved
              ELSE d.uniqueId
    IN [uniqueId |-> id, uniqueIP |-> d.uniqueIP,
        connected |-> status = "asynSuccess" \/ (opened /\ id # 0)]

\* pDriver->disconnectCamera(): success at once without a handle, else the handle is
\* closed and the status is that of exceptionDisconnect.
DisconnectStatusOn(d, status) == IF d.connected THEN status ELSE "asynSuccess"

DisconnectCameraOn(d) == [d EXCEPT !.connected = FALSE]

\* The vendor library calls cameraLinkCallback(Event, UniqueId): found = 0,
\* uniqueIP = 0, pNode = ellFirst(cameraList).
LinkScanBegin ==
    /\ scan.pc = "idle"
    /\ \E kind \in {"ePvLinkAdd", "ePvLinkRemove"}, id \in DeviceIds,
          addr \in {0} \cup Addresses, ipOk \in BOOLEAN :
         scan' = [scan EXCEPT !.pc = "node", !.event = [kind |-> kind, id |-> id],
                              !.addr = addr, !.ipOk = ipOk, !.node = 1, !.found = 0,
                              !.uniqueIP = 0, !.calls = <<>>]
    /\ UNCHANGED <<extraVars, geom, PvApiInitialized, isUniqueId, sessionVars, vendorVars, frameVars,
                   lock, loc, linkEv>>

\* The function cameraLinkCallback calls on driver d, with ip the value of its local
\* uniqueIP after the address query.
LinkScanCall(kind, id, ip, d) ==
    IF kind = "ePvLinkAdd"
    THEN IF d.uniqueId = 0
         THEN IF ip = d.uniqueIP THEN "connectCamera" ELSE "none"
         ELSE IF id = d.uniqueId THEN "connectCamera" ELSE "none"
    ELSE IF id = d.uniqueId THEN "disconnectCamera" ELSE "none"

\* One pass of the while loop: pDriver->lock(), the switch on the event,
\* pDriver->unlock(), if (found) break, pNode = ellNext.  PvCameraIpSettingsGet's
\* status is not looked at: when it fails, uniqueIP is what the stack held (junk).
LinkScanNode ==
    /\ scan.pc = "node"
    /\ \E junk \in {0} \cup Addresses, status \in {"asynSuccess", "asynError"},
          resolved \in DeviceIds, opened \in BOOLEAN :
         LET n       == scan.node
             d       == scan.inst[n]
             kind    == scan.event.kind
             queried == kind = "ePvLinkAdd" /\ d.uniqueId = 0 /\ scan.uniqueIP = 0
             ip      == IF queried THEN (IF scan.ipOk THEN scan.addr ELSE junk)
                        ELSE scan.uniqueIP
             fn      == LinkScanCall(kind, scan.event.id, ip, d)
             ret     == IF fn = "disconnectCamera" THEN DisconnectStatusOn(d, status)
                        ELSE status
             after   == IF fn = "connectCamera" THEN ConnectCameraOn(d, ret, resolved, opened)
                        ELSE IF fn = "disconnectCamera" THEN DisconnectCameraOn(d)
                        ELSE d
             found   == IF fn # "none" /\ ret = "asynSuccess" THEN 1 ELSE scan.found
         IN
         /\ (queried /\ ~scan.ipOk) \/ junk = 0
         /\ fn = "none" => status = "asynSuccess"
         /\ fn # "connectCamera" => resolved = cameraDev /\ ~opened
         /\ scan' = [scan EXCEPT
                       !.inst = [scan.inst EXCEPT ![n] = after],
                       !.uniqueIP = ip,
                       !.found = found,
                       !.calls = IF fn = "none" THEN @
                                 ELSE Append(@, [node |-> n, fn |-> fn, status |-> ret]),
                       !.node = IF found # 0 THEN n ELSE n + 1,
                       !.pc = IF found # 0 \/ n = NumInstances THEN "idle" ELSE "node"]
    /\ UNCHANGED <<extraVars, geom, PvApiInitialized, isUniqueId, sessionVars, vendorVars, frameVars,
                   lock, loc, linkEv>>

\* The drivers of the process constructed and registered, no link event in progress.
InitScan ==
    /\ InitDriver
    /\ uniqueId = 0 /\ uniqueIP = 0
    /\ \E inst \in [Instances -> InstanceStates] : scan = [NoScan EXCEPT !.inst = inst]
    /\ QuietExtras

NextScan == LinkScanBegin \/ LinkScanNode

SpecScan == InitScan /\ [][NextScan]_vars

\* --------------------------------------------- constructor and destructor
\* the drivers a startup script can construct
NumDrivers == 3

Drivers    == 1..NumDrivers
LinkEvents == {"ePvLinkAdd", "ePvLinkRemove"}

\* The drivers of sequence q.
RECURSIVE NodesOf(_)
NodesOf(q) == IF q = <<>> THEN {} ELSE {Head(q)} \cup NodesOf(Tail(q))

\* ellDelete of the first node that points to driver n, if there is one.
RECURSIVE EllDelete(_, _)
EllDelete(q, n) ==
    IF q = <<>> THEN <<>>
    ELSE IF Head(q) = n THEN Tail(q)
    ELSE <<Head(q)>> \o EllDelete(Tail(q), n)

\* new prosilica(...): the node is added to cameraList (a new list when cameraList
\* is null); when PvApiInitialized is 0, PvInitialize and the two
\* PvLinkCallbackRegister calls (a failed PvInitialize returns from the constructor);
\* then the connection attempt.  Inputs: initOk, regAdd, regRemove (the vendor
\* calls succeed), connects (connectCamera leaves a handle), kept and sound (what
\* ellAdd to a deleted list does: the node stays or not, the heap survives or not).
Construct(n) ==
    /\ n \notin registry.alive /\ ~registry.corrupt
    /\ \E initOk \in BOOLEAN, regAdd \in BOOLEAN, regRemove \in BOOLEAN, connects \in BOOLEAN,
          kept \in BOOLEAN, sound \in BOOLEAN :
         LET dangling == registry.cameraList = "freed"
             inits    == ~PvApiInitialized /\ initOk
             ready    == PvApiInitialized \/ inits
         IN
         /\ dangling \/ (kept /\ sound)
         /\ PvApiInitialized \/ initOk \/ (regAdd /\ regRemove)
         /\ inits \/ (regAdd /\ regRemove)
         /\ ready \/ ~connects
         /\ PvApiInitialized' = ready
         /\ registry' = [registry EXCEPT
               !.cameraList = IF @ = "null" THEN "list" ELSE @,
               !.nodes      = IF kept THEN Append(@, n) ELSE @,
               !.alive      = @ \cup {n},
               !.connected  = IF connects THEN @ \cup {n} ELSE @,
               !.callbacks  = IF inits
                              THEN @ \cup {e \in LinkEvents :
                                              IF e = "ePvLinkAdd" THEN regAdd ELSE regRemove}
                              ELSE @,
               !.corrupt    = ~sound]
    /\ UNCHANGED <<params, decode, scan, geom, isUniqueId, sessionVars, vendorVars, frameVars,
                   lock, loc, linkEv>>

\* delete p: disconnectCamera() under the lock, the driver's node is taken out of
\* cameraList, and when the list is then empty both callbacks are unregistered,
\* PvUnInitialize is called if PvApiInitialized, and cameraList is deleted (the
\* pointer keeps its value).  Input: sound (what the walk over a deleted list and its
\* second delete leave of the heap).
Destruct(n) ==
    /\ n \in registry.alive /\ ~registry.corrupt
    /\ \E sound \in BOOLEAN :
         LET dangling == registry.cameraList = "freed"
             nodes    == EllDelete(registry.nodes, n)
             last     == nodes = <<>>
         IN
         /\ dangling \/ sound
         /\ PvApiInitialized' = (PvApiInitialized /\ ~last)
         /\ registry' = [registry EXCEPT
               !.cameraList = IF last THEN "freed" ELSE @,
               !.nodes      = nodes,
               !.alive      = @ \ {n},
               !.connected  = @ \ {n},
               !.callbacks  = IF last THEN {} ELSE @,
               !.corrupt    = ~sound,
               !.walk.stale = @ \/ registry.walk.pNode = n]
    /\ UNCHANGED <<params, decode, scan, geom, isUniqueId, sessionVars, vendorVars, frameVars,
                   lock, loc, linkEv>>

\* ellFirst(cameraList): the driver of the first node, 0 (null) for an empty list.
EllFirst(q) == IF q = <<>> THEN 0 ELSE Head(q)

\* ellNext of the node of driver n in list q: 0 (null) after the last node.
RECURSIVE EllNext(_, _)
EllNext(q, n) ==
    IF q = <<>> THEN 0
    ELSE IF Head(q) = n THEN EllFirst(Tail(q))
    ELSE EllNext(Tail(q), n)

\* The vendor's thread calls cameraLinkCallback for an event it is registered for:
\* pNode = ellFirst(cameraList).  No lock is taken for the list.  (A callback that
\* begins on a deleted list is the destructor's defect of the dangling cameraList.)
LinkWalkBegin ==
    /\ registry.walk.pc = "idle"
    /\ registry.cameraList = "list" /\ ~registry.corrupt
    /\ \E e \in registry.callbacks :
         LET first == EllFirst(registry.nodes) IN
         registry' = [registry EXCEPT
                        !.walk = [NoWalk EXCEPT !.pc = IF first = 0 THEN "idle" ELSE "node",
                                                !.event = e, !.pNode = first]]
    /\ UNCHANGED <<params, decode, scan, geom, PvApiInitialized, isUniqueId, sessionVars,
                   vendorVars, frameVars, lock, loc, linkEv>>

\* One pass of the while loop of cameraLinkCallback: pDriver = pNode->pCamera,
\* pDriver->lock(), the switch on the event, pDriver->unlock(), if (found) break,
\* pNode = ellNext(&pNode->node).  Inputs: match (the event is for this driver) and
\* ok (its connectCamera or disconnectCamera returns success).  A pNode whose node
\* the destructor has deleted is read all the same.
LinkWalkNode ==
    /\ registry.walk.pc = "node"
    /\ \E match \in BOOLEAN, ok \in BOOLEAN :
         LET w     == registry.walk
             n     == w.pNode
             found == match /\ ok
             next  == EllNext(registry.nodes, n)
         IN
         /\ match \/ ok
         /\ (w.stale \/ registry.corrupt) => (match /\ ok)
         /\ IF w.stale \/ registry.corrupt
            THEN registry' = [registry EXCEPT !.walk.pc = "fault"]
            ELSE registry' = [registry EXCEPT
                   !.connected = IF ~match THEN @
                                 ELSE IF w.event = "ePvLinkAdd" /\ ok THEN @ \cup {n}
                                 ELSE IF w.event = "ePvLinkRemove" THEN @ \ {n}
                                 ELSE @,
                   !.walk = IF found \/ next = 0 THEN NoWalk
                            ELSE [w EXCEPT !.pNode = next]]
    /\ UNCHANGED <<params, decode, scan, geom, PvApiInitialized, isUniqueId, sessionVars,
                   vendorVars, frameVars, lock, loc, linkEv>>

\* The link callback on the vendor's thread while drivers are constructed and
\* destroyed on another.
NextRace ==
    \/ \E n \in Drivers : Construct(n) \/ Destruct(n)
    \/ LinkWalkBegin
    \/ LinkWalkNode

\* The process as the loader leaves it: no driver, cameraList null, PvApiInitialized 0.
InitLife ==
    /\ PvApiInitialized = FALSE
    /\ InitSession
    /\ uniqueId = 0 /\ uniqueIP = 0
    /\ scan = NoScan
    /\ registry = NoRegistry
    /\ params = NoParams
    /\ decode = NoImage

NextLife == \E n \in Drivers : Construct(n) \/ Destruct(n)

SpecLife == InitLife /\ [][NextLife]_vars

SpecRace == InitLife /\ [][NextRace]_vars

\* ------------------------------------- writeInt32, writeFloat64, readParameters
\* the largest AcquisitionFrameCount the camera takes
MaxFrameCount == 2

\* static const char *PSTriggerStartModes[]
PSTriggerStartModes ==
    <<"Freerun", "SyncIn1", "SyncIn2", "SyncIn3", "SyncIn4", "FixedRate", "Software">>

\* static const char *PSTriggerEventModes[]
PSTriggerEventModes == <<"EdgeRising", "EdgeFalling", "EdgeAny", "LevelHigh", "LevelLow">>

\* The values of the camera's AcquisitionMode attribute.
AcquisitionModes == {"SingleFrame", "MultiFrame", "Recorder", "Continuous"}

\* The ADImageMode readParameters sets for an AcquisitionMode string.
ImageModeOf(str) ==
    IF str = "SingleFrame" THEN 0
    ELSE IF str \in {"MultiFrame", "Recorder"} THEN 1
    ELSE IF str = "Continuous" THEN 2
    ELSE 0

\* The index the matching loop of readParameters finds for str in table, 0 when it
\* finds none.
IndexIn(table, str) ==
    IF \E k \in 1..Len(table) : table[k] = str
    THEN (CHOOSE k \in 1..Len(table) : table[k] = str) - 1
    ELSE 0

\* readParameters(): the parameters as read from the camera's attributes.
ReadParameters(dev, mirror) ==
    [mirror EXCEPT !.ADNumImages   = dev.AcquisitionFrameCount,
                   !.ADImageMode   = ImageModeOf(dev.AcquisitionMode),
                   !.ADTriggerMode = IndexIn(PSTriggerStartModes, dev.FrameStartTriggerMode),
                   !.ADAcquireTime = dev.ExposureValue]

\* The parameters readParameters() sets from the camera's attributes.
MirroredParams == {"ADNumImages", "ADImageMode", "ADTriggerMode", "ADAcquireTime"}

\* The parameters of the write commands modelled, and the values written.
\* ADAcquireTime is written through writeFloat64, in seconds of a microsecond each.
ParamFunctions == {"ADNumImages", "ADImageMode", "ADTriggerMode", "PSTriggerEvent",
                   "ADAcquireTime", "NDArrayCallbacks"}
ParamValues    == {-1, 0, 1, 2, 7}

\* The attribute write of writeInt32/writeFloat64 for function f and value v on
\* attributes dev.  accepted: the camera takes a well-formed write.  Gives the status
\* and the attributes; "fault" when the string table is read outside its bounds and
\* the pointer found there cannot be read.
AttrWrite(dev, f, v, accepted, readable) ==
    LET err == [st |-> "asynError", dev |-> dev]
        ok(d) == [st |-> "asynSuccess", dev |-> d]
    IN
    IF f = "ADNumImages"
    THEN IF accepted /\ v \in 1..MaxFrameCount
         THEN ok([dev EXCEPT !.AcquisitionFrameCount = v]) ELSE err
    ELSE IF f = "ADImageMode"
    THEN IF v \notin {0, 1, 2} THEN ok(dev)
         ELSE IF accepted
         THEN ok([dev EXCEPT !.AcquisitionMode =
                     IF v = 0 THEN "SingleFrame" ELSE IF v = 1 THEN "MultiFrame"
                     ELSE "Continuous"])
         ELSE err
    ELSE IF f = "ADTriggerMode"
    THEN IF v < 0 \/ v > Len(PSTriggerStartModes) - 1 THEN err
         ELSE IF accepted
         THEN ok([dev EXCEPT !.FrameStartTriggerMode = PSTriggerStartModes[v + 1]])
         ELSE err
    ELSE IF f = "PSTriggerEvent"
    THEN IF v < 0 \/ v > Len(PSTriggerEventModes) - 1
         THEN IF readable THEN err ELSE [st |-> "fault", dev |-> dev]
         ELSE IF accepted
         THEN ok([dev EXCEPT !.FrameStartTriggerEvent = PSTriggerEventModes[v + 1]])
         ELSE err
    ELSE IF f = "ADAcquireTime"
    THEN IF accepted /\ v >= 0 THEN ok([dev EXCEPT !.ExposureValue = v]) ELSE err
    ELSE ok(dev)

\* Whether writeInt32/writeFloat64 reaches the vendor's attribute write for function
\* f and value v: only ADTriggerMode tests its index before it reads the table, and
\* ADImageMode has no case for other values than its three.
AttrIssued(f, v, readable) ==
    IF f = "ADTriggerMode" THEN v >= 0 /\ v <= Len(PSTriggerStartModes) - 1
    ELSE IF f = "ADImageMode" THEN v \in {0, 1, 2}
    ELSE IF f = "PSTriggerEvent"
    THEN (v >= 0 /\ v <= Len(PSTriggerEventModes) - 1) \/ readable
    ELSE f \in {"ADNumImages", "ADAcquireTime"}

\* writeInt32/writeFloat64(function, value), with the port locked, up to
\* readParameters(): setIntegerParam/setDoubleParam(function, value) and the
\* attribute write of the function.
ParamWrite ==
    /\ params.pc = "idle" /\ AtPc("cmd", "idle") /\ lock = "none"
    /\ ValidHandle(PvHandle)
    /\ \E f \in ParamFunctions, v \in ParamValues, accepted \in BOOLEAN, readable \in BOOLEAN :
         LET w == AttrWrite(params.dev, f, v, accepted, readable) IN
         /\ readable \/ w.st = "fault"
         /\ params' = [params EXCEPT
                         !.pc = IF w.st = "fault" THEN "fault" ELSE "read",
                         !.dev = w.dev,
                         !.mirror = IF f \in DOMAIN @ THEN [@ EXCEPT ![f] = v] ELSE @,
                         !.function = f, !.value = v, !.status = w.st,
                         !.issued = AttrIssued(f, v, readable)]
    /\ lock' = "cmd"
    /\ SetLoc("cmd", EnterLoc("writeInt32", "w_param"))
    /\ UNCHANGED <<registry, decode, scan, geom, PvApiInitialized, isUniqueId, sessionVars,
                   vendorVars, frameVars, linkEv>>

\* readParameters() at the end of the command (the parameters, and getGeometry for
\* the region), the return and the unlock of the port.
ParamReadBack ==
    /\ params.pc = "read" /\ AtPc("cmd", "w_param") /\ lock = "cmd"
    /\ params' = [NoParams EXCEPT !.dev = params.dev,
                                  !.mirror = ReadParameters(params.dev, params.mirror)]
    /\ geom' = [geom EXCEPT !.par = [a \in Axes |-> GetAxis(geom.hw[a])],
                            !.status.get = BinningStatusOk(GetBinning(geom.binning))]
    /\ lock' = "none"
    /\ SetLoc("cmd", IdleLoc)
    /\ UNCHANGED <<registry, decode, scan, PvApiInitialized, isUniqueId, sessionVars,
                   vendorVars, frameVars, linkEv>>

\* The attributes a connected camera can have.
DeviceStates ==
    [AcquisitionFrameCount : 1..MaxFrameCount, AcquisitionMode : AcquisitionModes,
     FrameStartTriggerMode : {"Freerun", "SyncIn4", "Software"},
     FrameStartTriggerEvent : {"EdgeRising"}, ExposureValue : {1}]

\* The connected session idle, its parameters as connectCamera's readParameters()
\* left them.
InitCmd ==
    /\ InitIdleCamera
    /\ registry = NoRegistry /\ decode = NoImage
    /\ \E dev \in DeviceStates :
         params = [NoParams EXCEPT
                     !.dev = dev,
                     !.mirror = ReadParameters(dev, [f \in MirroredParams |-> 0])]

NextCmd == ParamWrite \/ ParamReadBack

SpecCmd == InitCmd /\ [][NextCmd]_vars

\* ------------------------------------------- frameCallback: the decode step
\* tPvFrame.Format values: the six the switch has a case for, and one it has not.
FrameFormats == {"ePvFmtMono8", "ePvFmtMono16", "ePvFmtBayer8", "ePvFmtBayer16",
                 "ePvFmtRgb24", "ePvFmtRgb48", "ePvFmtYuv411"}

\* PSBayerConvert_t, and a value of the parameter outside it.
PSBayerConvertNone == 0
PSBayerConvertRGB1 == 1
PSBayerConvertRGB2 == 2
PSBayerConvertRGB3 == 3
BayerConverts == 0..4

\* PSTimestampType_t, and a value of the parameter outside it.
PSTimestampTypeNativeTicks   == 0
PSTimestampTypeNativeSeconds == 1
PSTimestampTypePOSIX         == 2
PSTimestampTypeEPICS         == 3
PSTimestampTypeIOC           == 4
TimestampTypes == 0..5

\* tPvFrame.BayerPattern: the first and the last of the patterns, ePvBayerRGGB and
\* ePvBayerBGGR, and the values a frame can carry, those of the enumeration and two
\* past its end.
ePvBayerRGGB == 0
ePvBayerBGGR == 3
MaxBayerPattern == 5
BayerPatterns == 0..MaxBayerPattern

\* A callback that attaches the frame's pattern as it came: C33 must tell it from
\* the code's.
KeepBayerPattern(p) == p

\* if (pFrame->BayerPattern > ePvBayerBGGR) pFrame->BayerPattern = ePvBayerRGGB;
FixBayerPattern(p) == IF p > ePvBayerBGGR THEN ePvBayerRGGB ELSE p

\* One NDDimension_t.
Dim(size, offset, binning) == [size |-> size, offset |-> offset, binning |-> binning]

\* The bytes of a format's samples: NDUInt8 or NDUInt16.
DataTypeOf(fmt) ==
    IF fmt \in {"ePvFmtMono8", "ePvFmtBayer8", "ePvFmtRgb24"} THEN "NDUInt8" ELSE "NDUInt16"

\* A layout that puts the colour axis first whatever the conversion: C23 must tell
\* it from the code's.
ColorDimsFirst(conv, x, y) == <<Dim(3, 0, 1), x, y>>

\* The dims of an RGB image for the colour layout conv, x and y the frame's axes.
ColorDims(conv, x, y) ==
    IF conv = PSBayerConvertRGB1 THEN <<Dim(3, 0, 1), x, y>>
    ELSE IF conv = PSBayerConvertRGB2 THEN <<x, Dim(3, 0, 1), y>>
    ELSE <<x, y, Dim(3, 0, 1)>>

\* The colour mode of the layout.
ColorModeOf(conv) ==
    IF conv = PSBayerConvertRGB1 THEN "NDColorModeRGB1"
    ELSE IF conv = PSBayerConvertRGB2 THEN "NDColorModeRGB2"
    ELSE "NDColorModeRGB3"

\* switch(pFrame->Format): the NDArray handed on for frame fr found in NDArray raw,
\* with bayerConvert and the binning parameters.  converted: the image is a new
\* NDArray from the pool, which alloc gave the dims <<3, Width, Height>> and which
\* keeps the epicsTS of its last use (fr.stale); colorMode is an uninitialised local
\* (fr.junk) where no case assigns it.
DecodeFormat(fr, raw, bayerConvert, binX, binY) ==
    LET x     == Dim(fr.Width, fr.RegionX, binX)
        y     == Dim(fr.Height, fr.RegionY, binY)
        plain == [converted |-> FALSE, dataType |-> DataTypeOf(fr.Format), ndims |-> 2,
                  dims |-> <<x, y>>, colorMode |-> "NDColorModeMono", epicsTS |-> fr.now]
        alloc == [converted |-> TRUE, dataType |-> DataTypeOf(fr.Format), ndims |-> 3,
                  dims |-> <<Dim(3, 0, 1), Dim(fr.Width, 0, 1), Dim(fr.Height, 0, 1)>>,
                  colorMode |-> fr.junk, epicsTS |-> fr.stale]
    IN
    IF fr.Format \in {"ePvFmtMono8", "ePvFmtMono16"} THEN plain
    ELSE IF fr.Format \in {"ePvFmtBayer8", "ePvFmtBayer16"}
    THEN IF bayerConvert = PSBayerConvertNone
         THEN [plain EXCEPT !.colorMode = "NDColorModeBayer"]
         ELSE IF bayerConvert \in {PSBayerConvertRGB1, PSBayerConvertRGB2, PSBayerConvertRGB3}
         THEN [alloc EXCEPT !.dims = ColorDims(bayerConvert, x, y),
                            !.colorMode = ColorModeOf(bayerConvert)]
         ELSE alloc
    ELSE IF fr.Format \in {"ePvFmtRgb24", "ePvFmtRgb48"}
    THEN [plain EXCEPT !.ndims = 3, !.dims = ColorDims(PSBayerConvertRGB1, x, y),
                       !.colorMode = "NDColorModeRGB1"]
    ELSE [raw EXCEPT !.colorMode = fr.junk, !.epicsTS = fr.now]

\* switch (timestamp_type): pImage->timeStamp as base + ticks / per, with ticks the
\* two words of the frame's timestamp and base a time in an epoch, or none.  freq is
\* timeStampFrequency, sync is lastSyncTime, ts the epicsTS of the NDArray handed on.
TimeStampOf(type, fr, freq, sync, ts) ==
    LET ticks == [hi |-> fr.TimestampHi, lo |-> fr.TimestampLo]
        none  == [hi |-> 0, lo |-> 0]
        per   == IF freq = 0 THEN 1 ELSE freq
    IN
    IF type = PSTimestampTypeNativeSeconds
    THEN [epoch |-> "none", base |-> 0, ticks |-> ticks, per |-> per]
    ELSE IF type = PSTimestampTypePOSIX
    THEN [epoch |-> "POSIX", base |-> sync, ticks |-> ticks, per |-> per]
    ELSE IF type = PSTimestampTypeEPICS
    THEN [epoch |-> "EPICS", base |-> sync, ticks |-> ticks, per |-> per]
    ELSE IF type = PSTimestampTypeIOC
    THEN [epoch |-> "EPICS", base |-> ts, ticks |-> none, per |-> 1]
    ELSE [epoch |-> "none", base |-> 0, ticks |-> ticks, per |-> 1]

\* The frame completions and parameters looked at.  now is the time of the callback,
\* stale the epicsTS a pool NDArray kept, sync the time of the last syncTimer().
FrameInputs ==
    [Status : FrameStatuses, Format : FrameFormats, BayerPattern : BayerPatterns,
     Width : {1, 2}, Height : {3},
     RegionX : {0, 1}, RegionY : {0}, TimestampHi : {0, 1}, TimestampLo : {5}, now : {20},
     stale : {0, 10}, junk : {"NDColorModeMono", "junk"}]

\* The NDArray of the descriptor as connectCamera or the last callback allocated it.
RawArray == [converted |-> FALSE, dataType |-> "NDInt8", ndims |-> 2,
             dims |-> <<Dim(4, 0, 1), Dim(4, 0, 1)>>, colorMode |-> "none", epicsTS |-> 0]

\* frameCallback for the completion decode.frame, not cancelled, up to the call of
\* doCallbacksGenericPointer.  bound: Context[1] holds an NDArray; arrayCallbacks:
\* the NDArrayCallbacks parameter; memRgb: the pool serves the alloc of the RGB
\* image, and without it pImage->pData is read through NULL.  delivered counts the
\* calls of doCallbacksGenericPointer.
DecodeFrame ==
    /\ decode.pc = "frame"
    /\ \E memRgb \in BOOLEAN :
         LET out == DecodeFormat(decode.frame, RawArray, decode.bayerConvert, decode.binX, 1)
             bad == ~decode.bound \/ decode.frame.Status # "ePvErrSuccess"
         IN
         /\ memRgb \/ (~bad /\ out.converted)
         /\ decode' = IF bad THEN [decode EXCEPT !.pc = "bad"]
                       ELSE IF ~memRgb THEN [decode EXCEPT !.pc = "fault"]
                       ELSE [decode EXCEPT
                               !.pc = "decoded",
                               !.out = out,
                               !.timeStamp = TimeStampOf(decode.timestampType, decode.frame,
                                                         decode.freq, decode.sync, out.epicsTS),
                               !.freq = IF @ = 0 /\ decode.timestampType \in
                                            {PSTimestampTypeNativeSeconds, PSTimestampTypePOSIX,
                                             PSTimestampTypeEPICS}
                                        THEN 1 ELSE @,
                               !.bayerPattern = FixBayerPattern(decode.frame.BayerPattern),
                               !.delivered = IF decode.arrayCallbacks THEN 1 ELSE 0]
    /\ UNCHANGED <<registry, params, scan, geom, PvApiInitialized, isUniqueId, sessionVars,
                   vendorVars, frameVars, lock, loc, linkEv>>

\* A connected session in whose callback a frame completion arrives.  What a bad
\* frame's callback does not read is left at one value.
InitDecode ==
    /\ InitIdleCamera
    /\ registry = NoRegistry /\ params = NoParams
    /\ \E fr \in FrameInputs, bound \in BOOLEAN, cb \in BOOLEAN, conv \in BayerConverts,
          type \in TimestampTypes, freq \in {0, 2}, binX \in {1, 2} :
         /\ (~bound \/ fr.Status # "ePvErrSuccess")
               => /\ fr.Format = "ePvFmtMono8" /\ fr.Width = 1 /\ fr.RegionX = 0
                  /\ fr.TimestampHi = 0 /\ fr.stale = 0 /\ fr.junk = "junk"
                  /\ fr.BayerPattern = ePvBayerRGGB
                  /\ conv = 0 /\ type = 0 /\ freq = 2 /\ binX = 1
         \* the pattern is varied on frames that are alike in what does not bear on it
         /\ fr.BayerPattern # ePvBayerRGGB
               => /\ fr.Width = 1 /\ fr.RegionX = 0 /\ fr.TimestampHi = 0 /\ fr.stale = 0
                  /\ type = 0 /\ freq = 2 /\ binX = 1
         /\ decode = [pc |-> "frame", frame |-> fr, bound |-> bound, arrayCallbacks |-> cb,
                      bayerConvert |-> conv, binX |-> binX, timestampType |-> type,
                      freq |-> freq, sync |-> 15, out |-> RawArray,
                      timeStamp |-> TimeStampOf(0, fr, 1, 0, 0), delivered |-> 0,
                      bayerPattern |-> ePvBayerRGGB]

NextDecode == DecodeFrame

SpecDecode == InitDecode /\ [][NextDecode]_vars

\* =================================================================== claims
\* How many of the driver's pointers hold NDArray b.
Holders(b) == Cardinality({i \in Frames : ctx[i] = b}) + (IF pArrays0 = b THEN 1 ELSE 0)

\* A top-level disconnect() on thread t has returned.
DisconnectReturned(t) == loc[t].pc = "done" /\ loc[t].top = "disconnect"

\* C1: a step that ends a disconnect() leaves the handle null, every descriptor's
\* buffer null and released exactly once (no NDArray is left with a reference other
\* than the last good image's, none with a negative count); and a disconnect() that
\* finds the handle null changes no driver or vendor state, issues no vendor call,
\* sends no signal and returns success.
C1_DisconnectIdempotent ==
    [][\A t \in Threads :
         /\ (loc'[t].pc = "done" /\ loc'[t].top = "disconnect") =>
               /\ PvHandle' = NULL
               /\ \A i \in Frames : ctx'[i] = NULL
               /\ \A b \in Buffers : refcnt'[b] = IF b = pArrays0' THEN 1 ELSE 0
         /\ (loc[t].pc = "d_entry" /\ loc[t].top = "disconnect" /\ PvHandle = NULL
             /\ loc'[t].pc = "done") =>
               /\ UNCHANGED <<sessionVars, vendorVars, frameVars>>
               /\ loc'[t].vcalls = 0
               /\ loc'[t].sent = <<>>
               /\ loc'[t].ret = "asynSuccess"]_vars

\* C1 witness: a disconnect() of a session that had received a frame has returned,
\* after its three vendor calls and its signal.
C1_Witness ==
    /\ DisconnectReturned("cmd")
    /\ loc["cmd"].vcalls = 3
    /\ loc["cmd"].sent = <<"disconnected">>
    /\ pArrays0 # NULL
    /\ PvHandle = NULL

\* The vendor steps of connectCamera the claim is about.
TransportSteps == {"open", "pkt", "start", "queue"}

\* C2: when connect() has returned because the open, the packet-size negotiation, the
\* capture start or a queue-frame call failed, the handle is null and no descriptor
\* holds a buffer.
C2_FailedConnectDisconnected ==
    \A t \in Threads :
        (loc[t].pc = "done" /\ loc[t].failed \in TransportSteps) =>
            /\ PvHandle = NULL
            /\ \A i \in Frames : ctx[i] = NULL

\* C3: a connect() that returns because access stayed denied has made exactly
\* CONNECT_RETRY_COUNT polls, one sleep before each, and has no handle open.
C3_AccessRetryBound ==
    \A t \in Threads :
        (loc[t].pc = "done" /\ loc[t].failed = "access") =>
            /\ loc[t].polls = CONNECT_RETRY_COUNT
            /\ loc[t].sleeps = CONNECT_RETRY_COUNT
            /\ loc[t].retry = CONNECT_RETRY_COUNT
            /\ loc[t].ret = "asynError"
            /\ PvHandle = NULL

\* C3 witness: connect() has returned the access error.
C3_Witness ==
    /\ loc["cmd"].pc = "done" /\ loc["cmd"].failed = "access"
    /\ loc["cmd"].polls = CONNECT_RETRY_COUNT

\* Thread t is in connectCamera between its disconnectCamera() and its open step.
BeforeOpen(t) == loc[t].pc \in {"c_resolve", "c_access", "c_open"}

\* C4: while connectCamera resolves, polls or opens, the disconnect sequence is
\* over (no vendor call or all three, the handle null, no descriptor bound); while
\* it arms, the descriptors not yet reached are unbound; and at most one handle is
\* open at any time.
C4_DisconnectBeforeReconnect ==
    /\ Cardinality(openHandles) <= 1
    /\ \A t \in Threads :
         /\ BeforeOpen(t) =>
              /\ PvHandle = NULL
              /\ \A i \in Frames : ctx[i] = NULL
              /\ loc[t].vcalls \in {0, 3}
              /\ loc[t].vcalls = 3 => loc[t].sent = <<"disconnected">>
         /\ loc[t].pc = "c_arm" =>
              \A i \in Frames : i >= loc[t].i => ctx[i] = NULL

\* C4 witness: a connect() that found the session running has disconnected it and
\* is about to open the camera again.
C4_Witness ==
    /\ loc["cmd"].pc = "c_open" /\ loc["cmd"].top = "connect"
    /\ loc["cmd"].vcalls = 3
    /\ imageCounter > 0

\* C9: every NDArray's reference count is the number of driver pointers that hold
\* it, and that number is 0 or 1: no release without a reference, no NDArray bound
\* twice, none referenced and unreachable.
C9_BufferAccounting ==
    \A b \in Buffers : refcnt[b] = Holders(b) /\ refcnt[b] \in {0, 1}

\* C9 witness: a converted frame has been decoded on top of an earlier good image:
\* the callback released the raw buffer and the previous image.
C9_Witness ==
    /\ frameLoc.pc = "unlock" /\ frameLoc.branch = "good"
    /\ Len(frameLoc.freed) = 2
    /\ ~crashed

\* The decode branch of a frame callback has run to its end.
Decoded == frameLoc.pc \in {"queue", "unlock"} /\ frameLoc.branch = "good" /\ ~crashed

\* How often b occurs in sequence q.
Count(q, b) == Cardinality({n \in 1..Len(q) : q[n] = b})

\* C10: after a successful decode the last-good slot holds the image produced for
\* the frame (the new RGB NDArray when the raw buffer was converted and released,
\* the frame's own buffer otherwise), which is what was delivered, not the buffer
\* now bound to the descriptor; and the image held before was released once.
C10_LastGoodSlot ==
    Decoded =>
        /\ pArrays0 # NULL
        /\ pArrays0 # ctx[fcb.i]
        /\ refcnt[pArrays0] = 1
        /\ frameLoc.delivered \in {NULL, pArrays0}
        /\ IF Count(frameLoc.freed, frameLoc.given) = 1 /\ frameLoc.given # frameLoc.prev
           THEN pArrays0 # frameLoc.given
           ELSE pArrays0 = frameLoc.given
        /\ frameLoc.prev # NULL =>
             /\ Count(frameLoc.freed, frameLoc.prev) = 1
             /\ refcnt[frameLoc.prev] = Holders(frameLoc.prev)

\* C10 witness: a converted frame replaced an earlier last-good image.
C10_Witness ==
    /\ Decoded
    /\ frameLoc.prev # NULL
    /\ frameLoc.freed = <<frameLoc.given, frameLoc.prev>>
    /\ pArrays0 \notin {frameLoc.given, frameLoc.prev}

\* The constructor's connection attempt has returned and no connectCamera has got
\* as far as reading the sensor: every connect() so far has failed.
OnlyFailedConnects ==
    /\ loc["cmd"].pc # "ctor" /\ loc["cmd"].top # "ctor"
    /\ sensor = NoSensor

\* cameraLinkCallback handles a device-appeared event for the instance's camera.
LinkAddStep ==
    /\ loc["link"].pc = "l_lock" /\ loc'["link"].pc # "l_lock"
    /\ linkEv.kind = "ePvLinkAdd" /\ linkEv.id = cameraDev

\* The session is Connected: a handle, and every descriptor bound.
Connected == PvHandle # NULL /\ \A i \in Frames : ctx[i] # NULL

\* C5: after failed connects only, a device-appeared event for the instance's
\* camera makes cameraLinkCallback call connectCamera(); and a connectCamera() called
\* for such an event that returns success leaves the session Connected.
C5_LinkAddReconnects ==
    [][/\ (LinkAddStep /\ OnlyFailedConnects) => loc'["link"].pc = "c_entry"
       /\ (loc'["link"].pc = "done" /\ loc'["link"].top = "linkAdd"
           /\ loc'["link"].ret = "asynSuccess") => Connected']_vars

\* The frame callback has run its body for a successful frame of a format the
\* switch has no case for.
UnsupportedStep ==
    /\ frameLoc.pc = "called" /\ frameLoc'.pc = "queue"
    /\ fcb.status = "ePvErrSuccess" /\ fcb.fmt = "ePvFmtYuv411"
    /\ ctx[fcb.i] # NULL

\* C6: the callback of a successful frame of an unsupported format adds one to the
\* bad-frame counter, leaves the last good image, the frame counter and
\* framesRemaining alone and delivers nothing.
C6_UnsupportedFormatDropped ==
    [][UnsupportedStep =>
         /\ badFrameCounter' = badFrameCounter + 1
         /\ pArrays0' = pArrays0
         /\ imageCounter' = imageCounter
         /\ framesRemaining' = framesRemaining
         /\ frameLoc'.delivered = NULL]_vars

\* A frame callback is about to return.
CallbackEnds == frameLoc.pc = "unlock" /\ ~crashed

\* The PvCaptureQueueFrame step of a frame callback.
RequeueStep == frameLoc.pc = "queue" /\ frameLoc'.pc = "unlock"

C8_QueuedHasFullBuffer ==
    \A i \in Frames :
        queued[i] # NULL =>
            /\ ctx[i] # NULL
            /\ bufSize[ctx[i]] = maxFrameSize
            /\ maxFrameSize = MaxFrameSizeOf(sensor)

\* The body of a frame callback, from lock() to callParamCallbacks(), has run.
FrameBodyStep == frameLoc.pc = "called" /\ frameLoc'.pc = "queue"

\* The frame of the callback in progress was decoded: a successful frame, with a
\* buffer, of a pixel format the decoder has a case for.
FrameDecoded ==
    /\ fcb.status = "ePvErrSuccess" /\ ctx[fcb.i] # NULL
    /\ SupportedFormat(fcb.fmt)

\* C11: after a start in multiple mode with count N, a frame callback runs the
\* auto-stop block (shutter closed, ADAcquire 0, ADStatus idle) exactly when its frame
\* is the N-th decoded one since the start: on no earlier frame and on no other.
C11_AutoStopAtNth ==
    [][(FrameBodyStep /\ dueFrames >= 0) =>
         /\ frameLoc'.autostop <=> (FrameDecoded /\ dueFrames = 1)
         /\ frameLoc'.autostop =>
               shutter' = 0 /\ acquire' = 0 /\ adStatus' = "ADStatusIdle"]_vars

\* A step of the vendor frame thread: a completion, or a step of a frame callback.
FrameThreadStep ==
    fcb' # fcb \/ frameLoc' # frameLoc \/ cancelling' # cancelling \/ crashed' # crashed

\* C12: while framesRemaining is negative, no step of the frame thread changes
\* framesRemaining, ADAcquire, ADStatus or the shutter.
C12_ContinuousNeverStops ==
    [][(FrameThreadStep /\ framesRemaining < 0) =>
         /\ framesRemaining' = framesRemaining
         /\ acquire' = acquire
         /\ adStatus' = adStatus
         /\ shutter' = shutter
         /\ ~frameLoc'.autostop]_vars

\* C12 witness: in continuous mode the callback of the second decoded frame is about
\* to return, the acquisition still on.
C12_Witness ==
    /\ frameLoc.pc = "unlock" /\ frameLoc.branch = "good" /\ ~crashed
    /\ framesRemaining = -1
    /\ imageCounter = MaxFrames
    /\ acquire = 1 /\ adStatus = "ADStatusAcquire" /\ shutter = 1

\* writeInt32(ADAcquire) issues its hardware command.
AcquireCommandStep == loc["cmd"].pc = "w_cmd" /\ loc'["cmd"].pc = "w_read"

\* C13: when writeInt32(ADAcquire) issues AcquisitionStart, framesRemaining is already
\* set from the image mode (single 1, multiple ADNumImages, continuous -1), ADStatus is
\* acquiring and the shutter is open; when it issues AcquisitionAbort, ADStatus is idle
\* and the shutter closed; and no step of the call before that one changes what the
\* camera is doing.
C13_SetBeforeCommand ==
    [][/\ AcquireCommandStep =>
            IF loc["cmd"].value # 0
            THEN /\ framesRemaining =
                       (CASE loc["cmd"].mode = "ADImageSingle"     -> 1
                          [] loc["cmd"].mode = "ADImageMultiple"   -> NumImages
                          [] loc["cmd"].mode = "ADImageContinuous" -> -1)
                 /\ adStatus = "ADStatusAcquire"
                 /\ shutter = 1
                 /\ acquire = 1
            ELSE /\ adStatus = "ADStatusIdle"
                 /\ shutter = 0
                 /\ acquire = 0
       /\ (loc["cmd"].pc = "idle" /\ loc'["cmd"].pc = "w_cmd") => acqOn' = acqOn]_vars

\* C13 witness: a start in multiple mode on a connected camera has issued
\* AcquisitionStart, and the camera is acquiring.
C13_Witness ==
    /\ loc["cmd"].pc = "w_read" /\ loc["cmd"].value = 1
    /\ loc["cmd"].mode = "ADImageMultiple"
    /\ PvHandle \in acqOn
    /\ framesRemaining = NumImages /\ shutter = 1

\* The offset and size setGeometry read for axis a exceed the sensor.
Exceeds(a) == geom.req[a].size > MaxSize(a) - geom.req[a].min

\* C14: when the offset X and size Y of an axis exceed the sensor maximum, setGeometry
\* gives the camera the size max - X (in binned pixels) and leaves max - X, not Y, in
\* ADSize; and after the read-back ADMin + ADSize is at most the maximum.
C14_GeometryClamp ==
    \A a \in Axes :
        Exceeds(a) =>
            /\ geom.pc = "readback" =>
                  /\ geom.applied[a] =
                        [big |-> FALSE,
                         v |-> CDiv(MaxSize(a) - geom.req[a].min, geom.req[a].bin)]
                  /\ geom.par[a].size = MaxSize(a) - geom.req[a].min
                  /\ geom.par[a].size # geom.req[a].size
            /\ geom.pc = "idle" =>
                  geom.par[a].min + geom.par[a].size <= MaxSize(a)

\* A connect() on thread t has returned success.
ConnectSucceeded(t) ==
    /\ loc[t].pc = "done" /\ loc[t].ret = "asynSuccess"
    /\ loc[t].top \in {"ctor", "connect", "linkAdd"}

\* C15: when a connect() returns success and the device reported the sensor data it
\* reported to the connect() before, the session has the sensor data and maxFrameSize
\* of that connect(), and every descriptor is bound to an NDArray of its own of
\* maxFrameSize bytes.
C15_ReconnectRoundTrip ==
    \A t \in Threads :
        (ConnectSucceeded(t) /\ loc[t].was.sensor = sensor) =>
            /\ maxFrameSize = loc[t].was.maxFrameSize
            /\ maxFrameSize = MaxFrameSizeOf(sensor)
            /\ \A i \in Frames :
                  /\ ctx[i] # NULL
                  /\ bufSize[ctx[i]] = maxFrameSize
                  /\ refcnt[ctx[i]] = 1
                  /\ \A j \in Frames : ctx[j] = ctx[i] => j = i

\* C15 witness: connect() on a session that was connected and disconnected before has
\* returned success, the device reporting the same sensor data.
C15_Witness ==
    /\ ConnectSucceeded("cmd") /\ loc["cmd"].top = "connect"
    /\ loc["cmd"].vcalls = 0
    /\ loc["cmd"].was.sensor = sensor
    /\ loc["cmd"].was.maxFrameSize = maxFrameSize /\ maxFrameSize > 0
    /\ \A i \in Frames : ctx[i] # NULL /\ queued[i] = PvHandle

\* C16: a disconnect() that has been entered returns, a frame callback that has been
\* started returns, and every cancelled completion is delivered.
C16_DisconnectNoDeadlock ==
    /\ (loc["cmd"].pc = "d_entry") ~> (loc["cmd"].pc = "done")
    /\ (frameLoc.pc = "called") ~> (frameLoc.pc = "idle")
    /\ (cancelling # {}) ~> (cancelling = {})

\* The positions of a thread inside disconnectCamera.
DisconnectPcs == {"d_entry", "d_clear", "d_clearing", "d_end", "d_close", "d_closing", "d_lock"}

\* Thread t makes a step of disconnectCamera.
DisconnectMoves(t) == loc[t].pc \in DisconnectPcs /\ loc'[t] # loc[t]

\* C17: disconnectCamera is entered with the lock held by its caller; the caller
\* does not hold the lock when it issues PvCaptureQueueClear, PvCaptureEnd or
\* PvCameraClose nor while one of them is in progress; the step of disconnectCamera
\* that releases a descriptor's buffer or sets the handle to null is made with the
\* lock taken again; and whenever disconnectCamera returns, the caller holds the
\* lock as on entry.
C17_DisconnectLockWindow ==
    [][\A t \in Threads :
         /\ loc[t].pc = "d_entry" => lock = t
         /\ loc[t].pc \in DisconnectPcs \ {"d_entry"} => lock # t
         /\ loc'[t].vcalls > loc[t].vcalls => lock # t /\ lock' # t
         /\ (DisconnectMoves(t) /\ (ctx' # ctx \/ refcnt' # refcnt \/ PvHandle' # PvHandle)) =>
               /\ loc[t].pc = "d_lock" /\ loc[t].vcalls = 3
               /\ lock = "none" /\ lock' = t
         /\ (DisconnectMoves(t) /\ loc'[t].pc \notin DisconnectPcs) => lock' = t]_vars

\* C17 witness: a disconnect() of a connected session has returned with the lock
\* held, after its three vendor calls, while a frame callback that ran in the
\* window has delivered an image.
C17_Witness ==
    /\ DisconnectReturned("cmd") /\ lock = "cmd"
    /\ loc["cmd"].vcalls = 3
    /\ PvHandle = NULL
    /\ imageCounter > 0
    /\ loc["link"].pc = "idle"

\* The positions from which a thread's next step reads or writes the session: every
\* step of connectCamera, the steps of disconnectCamera that pass this->PvHandle to
\* the vendor library or release the buffers, and the hardware command and the
\* read-back of writeInt32.
SessionPcs ==
    {"c_entry", "c_resolve", "c_access", "c_open", "c_pkt", "c_start", "c_sensor", "c_arm",
     "c_params", "c_abort", "c_signal",
     "d_entry", "d_clear", "d_end", "d_close", "d_lock",
     "w_cmd", "w_read", "w_geom"}

\* Thread t makes a step that reads or writes the session.
SessionAccess(t) == loc[t].pc \in SessionPcs /\ loc'[t] # loc[t]

\* Thread t holds the lock when its step touches the session: the step from d_lock
\* takes the lock first, every other step needs it taken already.
LockedAccess(t) == IF loc[t].pc = "d_lock" THEN lock' = t ELSE lock = t

\* C18: every step of the command thread or of the link-event thread that reads or
\* writes the handle, the descriptors, their buffers, the frames-remaining counter
\* or the mirrored parameters is made with the lock held by that thread, and so is
\* every step of a frame callback that touches them.
C18_SessionStateLocked ==
    [][/\ \A t \in Threads : SessionAccess(t) => LockedAccess(t)
       /\ (frameLoc.pc = "called" /\ frameLoc' # frameLoc) => lock = "none" /\ lock' = "frame"
       /\ (frameLoc.pc \in {"queue", "unlock"} /\ frameLoc' # frameLoc) => lock = "frame"]_vars

\* The pass of the scan over node n calls connectCamera or disconnectCamera.
ScanCalls(n, fn) ==
    /\ scan.pc = "node" /\ scan.node = n
    /\ Len(scan'.calls) = Len(scan.calls) + 1
    /\ scan'.calls[Len(scan'.calls)].fn = fn

\* C19: during the scan for a device-appeared event connectCamera is called on a
\* driver only if the driver has no uniqueId and the device's current address is the
\* driver's uniqueIP, or the driver's uniqueId is the event's; for a device-removed
\* event disconnectCamera is called only on a driver whose uniqueId is the event's;
\* and a pass that calls neither leaves every driver as it was.
C19_LinkEventMatching ==
    [][\A n \in Instances :
         LET d == scan.inst[n] IN
         /\ ScanCalls(n, "connectCamera") =>
               /\ scan.event.kind = "ePvLinkAdd"
               /\ \/ d.uniqueId = 0 /\ scan.addr = d.uniqueIP
                  \/ d.uniqueId # 0 /\ d.uniqueId = scan.event.id
         /\ ScanCalls(n, "disconnectCamera") =>
               /\ scan.event.kind = "ePvLinkRemove"
               /\ d.uniqueId # 0 /\ d.uniqueId = scan.event.id
         /\ (scan.pc = "node" /\ scan'.calls = scan.calls) => scan'.inst = scan.inst
         /\ (scan.pc = "node" /\ scan.node # n) => scan'.inst[n] = d]_vars

\* C20: the scan visits the nodes of cameraList in order from the first, no node is
\* visited once a connectCamera or disconnectCamera call has been made for the
\* event, and so one event makes at most one call, whatever the call returned.
C20_ScanStopsAtFirstMatch ==
    /\ Len(scan.calls) <= 1
    /\ scan.pc = "node" => scan.calls = <<>> /\ scan.node \in Instances
    /\ \A k \in 1..Len(scan.calls) : scan.calls[k].node <= scan.node

\* C21: the link callbacks are unregistered and PvUnInitialize is called in a step
\* only if that step destroys the last live driver, and a step that destroys the last
\* live driver does both; while a driver is alive PvApiInitialized is set and both
\* callbacks are registered; and the drivers of cameraList are the live drivers.
C21_RegistryLifecycle ==
    [][/\ ((PvApiInitialized /\ ~PvApiInitialized')
           \/ (registry.callbacks # {} /\ registry'.callbacks = {})) =>
             registry.alive # {} /\ registry'.alive = {}
       /\ (registry.alive # {} /\ registry'.alive = {}) =>
             ~PvApiInitialized' /\ registry'.callbacks = {}
       /\ registry'.alive # {} =>
             PvApiInitialized' /\ registry'.callbacks = LinkEvents
       /\ NodesOf(registry'.nodes) = registry'.alive
       /\ ~registry'.corrupt]_vars

\* A write command has returned.
CommandReturns == params.pc = "read" /\ params'.pc = "idle"

\* C22: a write command that has entered returns through readParameters(), whatever
\* its function, its value and the status of its attribute write; on its return the
\* parameters of the frame count, the image mode, the trigger mode, the exposure and
\* the region are those of the camera's attributes.
C22_ReadBackEndsCommand ==
    [][/\ params'.pc # "fault"
       /\ (params.pc = "idle" /\ params'.pc # "idle") => params'.pc = "read"
       /\ CommandReturns =>
            /\ params'.mirror = ReadParameters(params'.dev, params'.mirror)
            /\ params'.mirror.ADTriggerMode \in 0..(Len(PSTriggerStartModes) - 1)
            /\ PSTriggerStartModes[params'.mirror.ADTriggerMode + 1]
                  = params'.dev.FrameStartTriggerMode
            /\ params'.mirror.ADImageMode \in {0, 1, 2}
            /\ \A a \in Axes : geom'.par[a] = GetAxis(geom'.hw[a])]_vars

\* The sizes of the axes of an NDArray, in order.
SizesOf(arr) == [i \in 1..Len(arr.dims) |-> arr.dims[i].size]

\* The dimension count, axis sizes and colour mode the format table gives a frame of
\* format fmt and size w by h under conversion conv.
TableRow(fmt, conv, w, h) ==
    IF fmt \in {"ePvFmtMono8", "ePvFmtMono16"}
    THEN [ndims |-> 2, sizes |-> <<w, h>>, colorMode |-> "NDColorModeMono"]
    ELSE IF fmt \in {"ePvFmtRgb24", "ePvFmtRgb48"}
    THEN [ndims |-> 3, sizes |-> <<3, w, h>>, colorMode |-> "NDColorModeRGB1"]
    ELSE IF conv = 0 THEN [ndims |-> 2, sizes |-> <<w, h>>, colorMode |-> "NDColorModeBayer"]
    ELSE IF conv = 1 THEN [ndims |-> 3, sizes |-> <<3, w, h>>, colorMode |-> "NDColorModeRGB1"]
    ELSE IF conv = 2 THEN [ndims |-> 3, sizes |-> <<w, 3, h>>, colorMode |-> "NDColorModeRGB2"]
    ELSE [ndims |-> 3, sizes |-> <<w, h, 3>>, colorMode |-> "NDColorModeRGB3"]

\* C23: for each of the six supported pixel formats, and for a Bayer format each of
\* the conversions none, RGB1, RGB2 and RGB3, the decoded image has the dimension
\* count, the axis order and the colour mode of the format table; its data type is
\* 8-bit for the 8- and 24-bit formats and 16-bit for the 16- and 48-bit ones; and a
\* colour axis has offset 0 and binning 1.
C23_DecodeTable ==
    (/\ decode.pc = "decoded"
     /\ decode.frame.Format # "ePvFmtYuv411"
     /\ decode.bayerConvert \in 0..3)
    => LET fr  == decode.frame
           out == decode.out
           row == TableRow(fr.Format, decode.bayerConvert, fr.Width, fr.Height)
       IN
       /\ out.ndims = row.ndims /\ Len(out.dims) = row.ndims
       /\ SizesOf(out) = row.sizes
       /\ out.colorMode = row.colorMode
       /\ out.dataType = IF fr.Format \in {"ePvFmtMono8", "ePvFmtBayer8", "ePvFmtRgb24"}
                          THEN "NDUInt8" ELSE "NDUInt16"
       /\ \A i \in 1..Len(out.dims) :
             \/ /\ row.ndims = 3 /\ out.dims[i] = Dim(3, 0, 1)
             \/ out.dims[i] \in {Dim(fr.Width, fr.RegionX, decode.binX),
                                  Dim(fr.Height, fr.RegionY, 1)}
       /\ row.ndims = 3 => \E i \in 1..3 : out.dims[i] = Dim(3, 0, 1)

\* C23 witness: a 16-bit Bayer frame of a region at an offset, binned by 2, decoded
\* under the RGB2 conversion: 16-bit, colour axis in the middle.
C23_Witness ==
    /\ decode.pc = "decoded"
    /\ decode.frame.Format = "ePvFmtBayer16" /\ decode.bayerConvert = PSBayerConvertRGB2
    /\ decode.frame.RegionX = 1 /\ decode.binX = 2 /\ decode.frame.Width = 2
    /\ decode.out.dataType = "NDUInt16"
    /\ decode.out.dims[2] = Dim(3, 0, 1)

\* C25: the decoded image's timestamp is, by timestamp mode and with ticks the frame's
\* TimestampLo + TimestampHi * 2^32: the ticks for native ticks; ticks / f for native
\* seconds; the time of the last clock synchronization plus ticks / f, in the POSIX
\* or the local epoch, for those two modes; and for the arbitration clock the time
\* stamped on the image at decode time; f being replaced by 1 when it is 0.
C25_TimestampModes ==
    (decode.pc = "decoded" /\ decode.timestampType \in 0..4)
    => LET fr    == decode.frame
           type  == decode.timestampType
           ticks == [hi |-> fr.TimestampHi, lo |-> fr.TimestampLo]
           ts    == decode.timeStamp
       IN
       /\ type = PSTimestampTypeNativeTicks
             => ts = [epoch |-> "none", base |-> 0, ticks |-> ticks, per |-> 1]
       /\ type = PSTimestampTypeNativeSeconds
             => ts = [epoch |-> "none", base |-> 0, ticks |-> ticks, per |-> decode.freq]
       /\ type = PSTimestampTypePOSIX
             => ts = [epoch |-> "POSIX", base |-> decode.sync, ticks |-> ticks,
                      per |-> decode.freq]
       /\ type = PSTimestampTypeEPICS
             => ts = [epoch |-> "EPICS", base |-> decode.sync, ticks |-> ticks,
                      per |-> decode.freq]
       /\ type \in {PSTimestampTypeNativeSeconds, PSTimestampTypePOSIX, PSTimestampTypeEPICS}
             => decode.freq # 0
       /\ type = PSTimestampTypeIOC
             => ts = [epoch |-> "EPICS", base |-> fr.now, ticks |-> [hi |-> 0, lo |-> 0],
                      per |-> 1]

\* C24: an image is handed to the subscribers if and only if the frame completed
\* with the success status, a buffer was bound to its descriptor and the 'deliver
\* images' flag was non-zero at decode time; and it is handed on once.
C24_DeliveryCondition ==
    decode.pc \in {"decoded", "bad", "fault"}
    => /\ decode.delivered \in {0, 1}
       /\ decode.delivered = 1
             <=> /\ decode.frame.Status = "ePvErrSuccess"
                 /\ decode.bound
                 /\ decode.arrayCallbacks

\* The vendor library runs the callback of a cancelled completion.
CancelledStep == cancelling' # cancelling /\ cancelling' \subseteq cancelling

\* C26: a completion with the cancelled status returns without taking the lock and
\* without changing any state of the driver, and its descriptor is not queued again.
C26_CancelledNoOp ==
    [][CancelledStep =>
         /\ lock' = lock
         /\ queued' = queued
         /\ UNCHANGED <<PvApiInitialized, isUniqueId, sessionVars, openHandles, captureOn,
                        acqOn, frameVars, loc, linkEv, geom, scan, extraVars>>]_vars

\* C26 witness: a disconnect's queue clear has returned on a session no frame of
\* which ever completed: each armed descriptor was handed back as cancelled, its
\* callback has run, and it is in no queue.
C26_Witness ==
    /\ \E t \in Threads : AtPc(t, "d_end")
    /\ frameBudget = MaxFrames /\ cancelling = {}
    /\ \A i \in Frames : ctx[i] # NULL /\ queued[i] = NULL

\* A step of a frame callback that took the bad-frame branch.
BadFrameStep ==
    /\ frameLoc' # frameLoc
    /\ frameLoc'.branch = "bad" \/ frameLoc.branch = "bad"

\* C27: a completion that is not cancelled and carries an error status, or has no
\* buffer bound, raises the bad-frame counter by exactly 1, when its callback is
\* entered, and changes nothing else: the frame counter, the frames remaining,
\* ADAcquire, ADStatus, the shutter, the last good image, the buffers and the
\* session's handle stay as they are.
C27_BadFrameOnlyCounts ==
    [][BadFrameStep =>
         /\ badFrameCounter' = IF frameLoc.pc = "called" THEN badFrameCounter + 1
                                ELSE badFrameCounter
         /\ frameLoc.pc = "called"
               => \/ fcb.status # "ePvErrSuccess"
                  \/ ctx[fcb.i] = NULL
         /\ UNCHANGED <<imageCounter, framesRemaining, acquire, adStatus, shutter, pArrays0,
                        ctx, refcnt, bufSize, crashed, sessionVars>>]_vars

\* C27 witness: a bad-frame callback is about to return on a session with its
\* handle, after an earlier frame was decoded and while frames remain to collect.
C27_Witness ==
    /\ frameLoc.pc = "unlock" /\ frameLoc.branch = "bad"
    /\ badFrameCounter = 1 /\ imageCounter = 1
    /\ framesRemaining > 0 /\ acquire = 1
    /\ PvHandle # NULL /\ pArrays0 # NULL

\* The steps of connectCamera from PvCameraOpen on, in the order of the code.
ConnectOrder == <<"c_open", "c_pkt", "c_start", "c_sensor", "c_arm", "c_params", "c_abort",
                  "c_signal">>

\* exceptionConnect is called on thread t; asynManager takes the signal unless the
\* call returns an error.
SignalGiven(t) == loc'[t].sent = Append(loc[t].sent, "connected")
SignalTaken(t) == SignalGiven(t) /\ loc'[t].failed # "signal"

\* A step of connectCamera on thread t from PvCameraOpen on.
ConnectStep(t) ==
    /\ \E k \in 1..Len(ConnectOrder) : loc[t].pc = ConnectOrder[k]
    /\ loc'[t] # loc[t]

\* The steps of connectCamera are taken in order, each going on to the next one
\* (the arming to itself, descriptor by descriptor) or returning an error; the
\* signal is given by the last one only, with the session open, capturing and
\* all descriptors armed; and a call that returns an error has no signal taken.
ConnectInOrder(t) ==
    ConnectStep(t) =>
      LET k == CHOOSE j \in 1..Len(ConnectOrder) : loc[t].pc = ConnectOrder[j] IN
      /\ \/ /\ k < Len(ConnectOrder) /\ loc'[t].pc = ConnectOrder[k + 1]
            /\ loc'[t].ret = "none"
            /\ loc[t].pc = "c_arm" => loc[t].i = MAX_PVAPI_FRAMES
         \/ /\ loc[t].pc = "c_arm" /\ loc'[t].pc = "c_arm"
            /\ loc'[t].i = loc[t].i + 1 /\ loc[t].i < MAX_PVAPI_FRAMES
            /\ loc'[t].ret = "none"
         \/ /\ loc'[t].pc = "done"
            /\ loc'[t].ret = IF loc[t].pc = "c_signal" /\ loc'[t].failed = "none"
                              THEN "asynSuccess" ELSE "asynError"
      /\ SignalGiven(t) <=> (loc[t].pc = "c_signal")
      /\ loc'[t].sent # loc[t].sent => SignalGiven(t)
      /\ SignalTaken(t)
            => /\ loc'[t].pc = "done" /\ loc'[t].ret = "asynSuccess"
               /\ PvHandle \in openHandles \cap captureOn
               /\ \A i \in Frames : ctx[i] # NULL /\ queued[i] = PvHandle
      /\ loc'[t].ret = "asynError" => ~SignalTaken(t)

C29_ReadBackContained ==
    [][\A t \in Threads :
         (loc[t].pc = "c_params" /\ loc'[t] # loc[t])
         => \/ loc'[t].pc = "c_abort"
            \/ loc'[t].pc = "done" /\ loc'[t].failed = "params"]_vars

\* C30: within one setGeometry() a failed attribute write does not stop the writes
\* that follow it: the region offset and the width and height are written on both
\* axes also after a binning write failed with an error other than 'not found'.
C30_GeometryBatchContinues ==
    geom.pc = "readback" => \A a \in Axes : geom.applied[a] # NoValue

\* C31: on a camera without the binning attributes, whose binning writes and reads
\* return 'not found', setGeometry still writes the region offset and the width and
\* height and, when the camera takes them, returns success; and the read-back puts
\* binning 1 in the parameter library on both axes and returns success.
C31_BinningNotFound ==
    ~geom.binning =>
        /\ geom.pc = "readback" =>
              /\ \A a \in Axes :
                    geom.applied[a] = ToUint32(CDiv(geom.clamped[a], geom.req[a].bin))
              /\ geom.status.set
                    <=> \A a \in Axes :
                          /\ ~ToUint32(CDiv(geom.req[a].min, geom.req[a].bin)).big
                          /\ ~geom.applied[a].big
                          /\ geom.hw[a].region = CDiv(geom.req[a].min, geom.req[a].bin)
                          /\ geom.hw[a].width = geom.applied[a].v
        /\ geom.pc = "idle" =>
              /\ \A a \in Axes : geom.par[a].bin = 1
              /\ geom.status.get

\* C31 witness: a camera without binning was asked for binning 2 and an offset of 1:
\* the region writes were made and taken, and setGeometry returned success.
C31_Witness ==
    /\ ~geom.binning /\ geom.pc = "readback"
    /\ geom.req["X"].bin = 2 /\ geom.req["X"].min = 2
    /\ geom.applied["X"] # NoValue /\ geom.hw["X"].region = 1
    /\ geom.status.set

\* C32: setGeometry writes the region offset min / bin and the size size / bin, with
\* integer division and bin replaced by 1 when it is below 1, and the read-back
\* mirrors offset x bin and size x bin: after the command the mirrored offset and
\* size are floor(requested / bin) x bin, for every requested offset, size and bin.
C32_BinnedUnits ==
    \A a \in Axes :
        LET bin == geom.req[a].bin IN
        /\ bin >= 1
        /\ (geom.pc = "readback" /\ geom.applied[a] # NoValue)
              => geom.applied[a] = ToUint32(CDiv(geom.clamped[a], bin))
        /\ geom.pc = "idle"
              => /\ geom.par[a].min = (geom.req[a].min \div bin) * bin
                 /\ geom.par[a].size = (geom.req[a].size \div bin) * bin

\* C39: for every geometry command, one with an offset larger than the sensor
\* included, the size setGeometry leaves in the parameter library and the size it
\* gives the camera are not negative.
C39_SizeNotNegative ==
    geom.pc = "readback" =>
        \A a \in Axes :
            /\ geom.clamped[a] >= 0
            /\ geom.par[a].size >= 0
            /\ ~geom.applied[a].big

\* C33: the Bayer pattern attached to a decoded image is one of the four values of
\* the enumeration: a value of the frame above the last of them is replaced by
\* RGGB, and a value of the enumeration is attached as it is.
C33_BayerPatternValid ==
    decode.pc = "decoded" =>
        /\ decode.bayerPattern \in ePvBayerRGGB..ePvBayerBGGR
        /\ decode.frame.BayerPattern > ePvBayerBGGR => decode.bayerPattern = ePvBayerRGGB
        /\ decode.frame.BayerPattern <= ePvBayerBGGR
              => decode.bayerPattern = decode.frame.BayerPattern

\* C33 witness: a frame of a mono format carrying a pattern past the enumeration
\* has been decoded and handed on.
C33_Witness ==
    /\ decode.pc = "decoded" /\ decode.delivered = 1
    /\ decode.frame.Format = "ePvFmtMono8"
    /\ decode.frame.BayerPattern = MaxBayerPattern
    /\ decode.bayerPattern = ePvBayerRGGB

\* C34: a step that ends a disconnect() which found the handle non-null leaves the
\* handle null and every descriptor's buffer null, having released each buffer a
\* descriptor held, has sent the 'disconnected' signal, and returns what the signal
\* returned, whether or not a vendor call reported an error.
C34_DisconnectAlwaysCompletes ==
    [][\A t \in Threads :
         (loc[t].pc = "d_lock" /\ loc[t].top = "disconnect" /\ loc'[t].pc = "done") =>
            /\ PvHandle' = NULL
            /\ \A i \in Frames : ctx'[i] = NULL
            /\ \A b \in Buffers :
                  (\E i \in Frames : ctx[i] = b) => refcnt'[b] < refcnt[b]
            /\ loc'[t].sent = Append(loc[t].sent, "disconnected")
            /\ loc'[t].sig \in {"asynSuccess", "asynError"}
            /\ loc'[t].ret = loc'[t].sig]_vars

\* C34 witness: a disconnect() whose vendor calls reported an error has released the
\* session's buffers, sent its signal and returned success.
C34_Witness ==
    /\ DisconnectReturned("cmd")
    /\ loc["cmd"].vcalls = 3
    /\ loc["cmd"].vstatus = "error"
    /\ loc["cmd"].sent = <<"disconnected">>
    /\ loc["cmd"].ret = "asynSuccess"
    /\ PvHandle = NULL
    /\ \A i \in Frames : ctx[i] = NULL

\* Thread t is inside connectCamera or disconnectCamera.
Running(t) == loc[t].pc \notin {"ctor", "idle", "l_lock", "done"}

\* The session lock is free and no connect(), disconnect() or frame callback is under
\* way: what a thread that takes the lock to look at the session finds.
Observable ==
    /\ lock = "none"
    /\ \A t \in Threads : ~Running(t)
    /\ frameLoc.pc \in {"idle", "called"}

\* C35: in every state seen with the session lock free and no connect(), disconnect()
\* or frame callback under way, a null handle means that no transfer descriptor has
\* an image buffer bound.
C35_NullHandleNoBuffers ==
    (Observable /\ ~crashed /\ PvHandle = NULL) => \A i \in Frames : ctx[i] = NULL

\* C35 witness: a session that had its descriptors bound and received a frame is
\* seen after its disconnect() with the handle null and closed.
C35_Witness ==
    /\ Observable /\ ~crashed
    /\ AtPc("cmd", "idle")
    /\ pArrays0 # NULL
    /\ openHandles = {}
    /\ PvHandle = NULL

\* Thread t takes the step of disconnectCamera that issues a vendor call on the
\* handle: PvCaptureQueueClear, PvCaptureEnd or PvCameraClose.
DisconnectVendorCall(t) ==
    /\ loc[t].pc \in {"d_clear", "d_end", "d_close"}
    /\ loc'[t].vcalls = loc[t].vcalls + 1

\* C36: with a second thread taking the lock in disconnect()'s unlock window, every
\* vendor call disconnect() issues on a handle finds that handle open: no handle is
\* closed twice and none is used after it has been closed.
C36_HandleClosedOnce ==
    [][\A t \in Threads :
         (DisconnectVendorCall(t) /\ PvHandle # NULL) => PvHandle \in openHandles]_vars

\* C37: a frame callback that the pool cannot serve (for the RGB image of a Bayer
\* conversion, or for the buffer that replaces the one delivered) never reads
\* through the null pointer it was given, and no descriptor is queued with the
\* vendor while its image buffer is null.
C37_PoolExhaustionHandled ==
    /\ ~crashed
    /\ \A i \in Frames : queued[i] # NULL => ctx[i] # NULL

\* The string table an integer command indexes with its value, for the commands
\* that select a vendor enumeration string.
EnumTable(f) ==
    IF f = "ADTriggerMode" THEN PSTriggerStartModes ELSE PSTriggerEventModes

\* C38: an integer command that selects a vendor enumeration string by index, given
\* a value outside its table, returns an error without having read the table
\* outside its bounds and without having issued an attribute write.
C38_EnumIndexChecked ==
    [][(/\ params.pc = "idle" /\ params'.pc # "idle"
        /\ params'.function \in {"ADTriggerMode", "PSTriggerEvent"}
        /\ params'.value \notin 0..(Len(EnumTable(params'.function)) - 1)) =>
            /\ params'.pc = "read"
            /\ params'.status = "asynError"
            /\ ~params'.issued
            /\ params'.dev = params.dev]_vars

\* C40: whatever the interleaving of the link-event callback with the construction
\* and destruction of drivers on another thread, the driver the callback is about
\* to evaluate and lock is registered in cameraList and alive, and the callback
\* never reads a node that has been deleted.
C40_LinkWalkOnRegistered ==
    /\ registry.walk.pc # "fault"
    /\ registry.walk.pc = "node" =>
          /\ registry.walk.pNode \in NodesOf(registry.nodes)
          /\ registry.walk.pNode \in registry.alive
          /\ ~registry.walk.stale

====
